---- MODULE Spec2Model ----
(***************************************************************************)
(* Model of the volume-control core of the volume-knobs plugin             *)
(* (utils/volume-control.ts, listed at the end of agent.md):               *)
(*   - the target resolver: getSinkId / getApplicationSink with pidCache,  *)
(*     getApplicationPids (pidof) and findMatchingPidInWpctl (wpctl        *)
(*     status);                                                            *)
(*   - the volume facade: getVolume, setVolume, getMuteState, toggleMute,  *)
(*     adjustVolume, each shelling out to wpctl.                           *)
(* Text (command lines, tool output, sink identifiers) is modelled as      *)
(* sequences of one-character strings, so that formatting and parsing are  *)
(* computed the way the code computes them.                                *)
(***************************************************************************)
EXTENDS Integers, Sequences, FiniteSets, TLC

VARIABLES
    pidCache,      \* pidCache: application name -> cached pid (Null when absent)
    procs,         \* environment: name -> pids of the running processes, in pidof order
    statusReport,  \* environment: lines of the (trimmed) output of `wpctl status`
    sinkVolume,    \* environment: volume of the default sink, in hundredths (100 = 1.00)
    sinkMuted,     \* environment: mute flag of the default sink
    streamMuted,   \* environment: pid -> mute flag of that process's streams
    tasks,         \* the calls under way (handler invocations, or facade calls that
                   \* await a command): position, locals, commands issued
    last,          \* the last completed operation: its arguments, outcome and pre-state
    prev,          \* the operation completed before `last` (facade operations only)
    calls,         \* external commands issued by the last completed operation, in order
    answers        \* what the tool answered to the command that returned in the last
                   \* step: exit code, stdout, stderr

vars == <<pidCache, procs, statusReport, sinkVolume, sinkMuted, streamMuted, tasks,
          last, prev, calls, answers>>

----------------------------------------------------------------------------
(* Bounds of the model *)

\* furthest the desktop mixer moves the default sink, in hundredths, while
\* a call of adjustVolume awaits its setVolume
MaxDrift == 2
\* longest status report, in lines
MaxLines == 2
\* most processes one program name has running
MaxProcs == 2
\* largest magnitude of a volume delta / overshoot of a requested percentage
MaxDelta == 10
\* longest status report handed to the status matcher on its own, in lines
MaxMatchLines == 3

(* Program constants *)

\* Map.get on a missing key / findMatchingPidInWpctl's null
Null == 0
\* parseInt / parseFloat failure
NaN == 0 - 1000000
\* the percentage ceiling used by getVolume and setVolume
MaxPercent == 100
\* wpctl accepts volumes up to 1.65
MaxToolVolume == 165

AppNames == {"firefox", "vlc"}
Pids == {48, 4821}

----------------------------------------------------------------------------
(* Characters and strings *)

Upper == {"A","B","C","D","E","F","G","H","I","J","K","L","M",
          "N","O","P","Q","R","S","T","U","V","W","X","Y","Z"}
DigitSeq == <<"0","1","2","3","4","5","6","7","8","9">>
DigitChars == {DigitSeq[i] : i \in 1..10}
\* \w of a JavaScript regular expression
WordChars ==
    Upper \cup DigitChars \cup
    {"a","b","c","d","e","f","g","h","i","j","k","l","m",
     "n","o","p","q","r","s","t","u","v","w","x","y","z","_"}
\* \s of a JavaScript regular expression (the members that occur here)
SpaceChars == {" ", "\t", "\n"}

DigitChar(d) == DigitSeq[d + 1]
DigitVal(c) == CHOOSE d \in 0..9 : DigitSeq[d + 1] = c

\* String(n) for a non-negative integer n
RECURSIVE Digits(_)
Digits(n) == IF n < 10 THEN <<DigitChar(n)>>
             ELSE Digits(n \div 10) \o <<DigitChar(n % 10)>>

\* number of leading characters of s, from position i on, that lie in set
RECURSIVE RunLength(_, _, _)
RunLength(s, i, set) ==
    IF i > Len(s) \/ s[i] \notin set THEN 0
    ELSE 1 + RunLength(s, i + 1, set)

\* value of a string of decimal digits
RECURSIVE DigitsValue(_)
DigitsValue(s) == IF s = <<>> THEN 0
                  ELSE 10 * DigitsValue(SubSeq(s, 1, Len(s) - 1)) + DigitVal(s[Len(s)])

\* parseInt(s, 10) for unsigned text: the leading run of digits, NaN if none
ParseInt(s) ==
    LET sp == RunLength(s, 1, SpaceChars)
        n  == RunLength(s, sp + 1, DigitChars)
    IN  IF n = 0 THEN NaN ELSE DigitsValue(SubSeq(s, sp + 1, sp + n))

StartsWith(s, p) == Len(s) >= Len(p) /\ SubSeq(s, 1, Len(p)) = p

\* s.includes(p)
Includes(s, p) ==
    \E i \in 1..(Len(s) - Len(p) + 1) : SubSeq(s, i, i + Len(p) - 1) = p

\* new RegExp(`\\b${tok}\\b`).test(s), for a token made of word characters
WordMatch(s, tok) ==
    \E i \in 1..(Len(s) - Len(tok) + 1) :
        /\ SubSeq(s, i, i + Len(tok) - 1) = tok
        /\ (i = 1 \/ s[i - 1] \notin WordChars)
        /\ (i + Len(tok) > Len(s) \/ s[i + Len(tok)] \notin WordChars)

\* line.match(/^\s*[A-Z]/)
HeaderLike(s) ==
    LET sp == RunLength(s, 1, SpaceChars)
    IN  sp < Len(s) /\ s[sp + 1] \in Upper

TxtClientsColon == <<"C","l","i","e","n","t","s",":">>
TxtClients == <<"C","l","i","e","n","t","s">>
TxtSinkInputsColon == <<"S","i","n","k"," ","I","n","p","u","t","s",":">>
TxtSinkInputs == <<"S","i","n","k"," ","I","n","p","u","t","s">>
TxtPidPrefix == <<"P","I","D",":">>
TxtDefaultSink == <<"@","D","E","F","A","U","L","T","_","A","U","D","I","O","_",
                    "S","I","N","K","@">>

----------------------------------------------------------------------------
(* Sink identifiers *)

isDefaultSink(sinkId) == sinkId = TxtDefaultSink

\* isPidBased comparing the whole identifier with the prefix
isPidBased_WholeString(sinkId) == sinkId = TxtPidPrefix

isPidBased(sinkId) == StartsWith(sinkId, TxtPidPrefix)

\* `PID:${pid}`
PidSinkId(pid) == TxtPidPrefix \o Digits(pid)

\* parseInt(sinkId.substring(4), 10); NaN makes the caller throw
extractPid(sinkId) == ParseInt(SubSeq(sinkId, 5, Len(sinkId)))

getDefaultSink == TxtDefaultSink

----------------------------------------------------------------------------
(* External commands, as recorded in `calls` *)

Cmd(tool, sub, target, value) ==
    [tool |-> tool, sub |-> sub, target |-> target, value |-> value]

\* what execAsync hands back for a command: the exit code, stdout and stderr
Answer(code, stdout, stderr) == [code |-> code, stdout |-> stdout, stderr |-> stderr]

CmdStatus == Cmd("wpctl", "status", <<>>, <<>>)
CmdPidof(appName) == Cmd("pidof", appName, <<>>, <<>>)

----------------------------------------------------------------------------
(* Status matching *)

\* the inner loop with the pid tested by line.includes instead of \b...\b
FirstPidOnLine_Substring(pids, line) ==
    IF \E k \in 1..Len(pids) : Includes(line, Digits(pids[k]))
    THEN pids[CHOOSE k \in 1..Len(pids) :
                /\ Includes(line, Digits(pids[k]))
                /\ \A j \in 1..(k - 1) : ~Includes(line, Digits(pids[j]))]
    ELSE Null

\* the inner loop over pids on one line: the first pid, in the order of
\* pids, that occurs on the line as a whole word
FirstPidOnLine(pids, line) ==
    IF \E k \in 1..Len(pids) : WordMatch(line, Digits(pids[k]))
    THEN pids[CHOOSE k \in 1..Len(pids) :
                /\ WordMatch(line, Digits(pids[k]))
                /\ \A j \in 1..(k - 1) : ~WordMatch(line, Digits(pids[j]))]
    ELSE Null

RECURSIVE ScanLines(_, _, _, _, _)
ScanLines(pids, lines, i, inClients, inSinkInputs) ==
    IF i > Len(lines) THEN Null
    ELSE LET line == lines[i] IN
         IF Includes(line, TxtClientsColon)
         THEN ScanLines(pids, lines, i + 1, TRUE, FALSE)
         ELSE IF Includes(line, TxtSinkInputsColon)
         THEN ScanLines(pids, lines, i + 1, FALSE, TRUE)
         ELSE IF /\ (inClients \/ inSinkInputs)
                 /\ HeaderLike(line)
                 /\ ~Includes(line, TxtClients)
                 /\ ~Includes(line, TxtSinkInputs)
         THEN ScanLines(pids, lines, i + 1, FALSE, FALSE)
         ELSE IF (inClients \/ inSinkInputs) /\ FirstPidOnLine(pids, line) # Null
         THEN FirstPidOnLine(pids, line)
         ELSE ScanLines(pids, lines, i + 1, inClients, inSinkInputs)

\* the scan with the loops exchanged: for each pid in turn, all lines
findMatchingPidInWpctl_PidMajor(pids, wpctlOutput) ==
    IF \E k \in 1..Len(pids) : ScanLines(<<pids[k]>>, wpctlOutput, 1, FALSE, FALSE) # Null
    THEN pids[CHOOSE k \in 1..Len(pids) :
                /\ ScanLines(<<pids[k]>>, wpctlOutput, 1, FALSE, FALSE) # Null
                /\ \A j \in 1..(k - 1) :
                       ScanLines(<<pids[j]>>, wpctlOutput, 1, FALSE, FALSE) = Null]
    ELSE Null

findMatchingPidInWpctl(pids, wpctlOutput) ==
    ScanLines(pids, wpctlOutput, 1, FALSE, FALSE)

----------------------------------------------------------------------------
(* The environment of the resolver: the process table and wpctl status *)

RECURSIVE SeqsUpTo(_, _)
\* all sequences over set of length at most n
SeqsUpTo(set, n) ==
    IF n = 0 THEN {<<>>}
    ELSE LET shorter == SeqsUpTo(set, n - 1)
         IN  shorter \cup {Append(q, x) : q \in shorter, x \in set}

Range(q) == {q[i] : i \in 1..Len(q)}

\* a process table: pidof lists the distinct pids of a name from the highest
\* to the lowest, and no pid belongs to two program names at once
ProcTables ==
    {t \in [AppNames -> {q \in SeqsUpTo(Pids, MaxProcs) :
                            \A i \in 1..(Len(q) - 1) : q[i] > q[i + 1]}] :
        \A a, b \in AppNames : a # b => Range(t[a]) \cap Range(t[b]) = {}}

\* lines of a status report
LineClients == <<" ">> \o TxtClientsColon
LineSinkInputs == <<" ">> \o TxtSinkInputsColon
LineAudio == <<"A","u","d","i","o">>
LineEntry(pid) ==
    <<" ","7","."," ","[","p","i","d",":">> \o Digits(pid) \o <<"]">>

StatusLines == {LineClients, LineSinkInputs, LineAudio} \cup {LineEntry(p) : p \in Pids}

Reports == SeqsUpTo(StatusLines, MaxLines)

\* stdout of `pidof appName`, split at white space: one token per process
PidofTokens(appName) == [i \in 1..Len(procs[appName]) |-> Digits(procs[appName][i])]

----------------------------------------------------------------------------
(* State *)

\* the record kept about a completed operation
\* op, mode, name, sink, arg: the call and its arguments; ok, error, handle,
\* value: its outcome; cacheBefore: pidCache when it started; volBefore: the
\* volume of the default sink when an adjustVolume read it (0 otherwise);
\* mutedBefore: the mute flag of the target when a facade call started
OpRecord(op, mode, name, sink, arg, ok, error, handle, value, cacheBefore, volBefore, mutedBefore) ==
    [op |-> op, mode |-> mode, name |-> name, sink |-> sink, arg |-> arg,
     ok |-> ok, error |-> error, handle |-> handle, value |-> value,
     cacheBefore |-> cacheBefore, volBefore |-> volBefore,
     mutedBefore |-> mutedBefore]

EmptyCache == [a \in AppNames |-> Null]

Idle == OpRecord("none", "", "", <<>>, 0, TRUE, "", <<>>, 0, EmptyCache, 0, FALSE)

\* a call of getSinkId or adjustVolume that awaits an external command.
\* pc: the command it awaits ("idle": no call, "done": it has returned or
\* thrown); record: what will be kept about it; cachedPid, pids, cur: its
\* local variables cachedPid, pids and currentVolume; issued: the commands
\* whose execution it has awaited
Call(pc, record, cachedPid, pids, cur, issued) ==
    [pc |-> pc, record |-> record, cachedPid |-> cachedPid, pids |-> pids,
     cur |-> cur, issued |-> issued]

IdleCall == Call("idle", Idle, Null, <<>>, 0, <<>>)

----------------------------------------------------------------------------
(* The target resolver *)

\* the call goes on to its next awaited command, the cache being as given
Awaits(call, cache) == [call |-> call, cache |-> cache]

\* the call ends: it leaves the cache as given and either returns the sink
\* identifier or throws the error
Outcome(call, cache, ok, error, handle) ==
    Awaits([call EXCEPT !.pc = "done", !.record.ok = ok, !.record.error = error,
                        !.record.handle = handle],
           cache)

\* the pids returned when pidof succeeded (exit code 1, no process, gives [])
getApplicationPids(appName) ==
    LET tokens == PidofTokens(appName)
        parsed == [i \in 1..Len(tokens) |-> ParseInt(tokens[i])]
        IsNumber(p) == p # NaN
    IN  SelectSeq(parsed, IsNumber)

\* verifyPidInWpctl that trusts the cache: every cached pid counts as valid
verifyPidInWpctl_AlwaysValid(pid) == TRUE

\* verifyPidInWpctl with the comparison inverted (=== null)
verifyPidInWpctl_Inverted(pid) == findMatchingPidInWpctl(<<pid>>, statusReport) = Null

\* verifyPidInWpctl, once `wpctl status` has answered
verifyPidInWpctl(pid) == findMatchingPidInWpctl(<<pid>>, statusReport) # Null

\* getApplicationSink without the pids.length === 0 check
getApplicationSink_NoEmptyCheck(call, cache, fail) ==
    LET appName == call.record.name
        asked == [call EXCEPT !.issued =
                     Append(@, IF call.pc = "pidof" THEN CmdPidof(appName) ELSE CmdStatus)]
        pids == getApplicationPids(appName)
        matchingPid == findMatchingPidInWpctl(call.pids, statusReport)
    IN  IF call.pc = "start"
        THEN IF cache[appName] # Null
             THEN Awaits([call EXCEPT !.pc = "verify", !.cachedPid = cache[appName]], cache)
             ELSE Awaits([call EXCEPT !.pc = "pidof"], cache)
        ELSE IF call.pc = "verify"
        THEN IF fail
             THEN Outcome(asked, cache, FALSE, "ToolError", <<>>)
             ELSE IF verifyPidInWpctl(call.cachedPid)
             THEN Outcome(asked, cache, TRUE, "", PidSinkId(call.cachedPid))
             ELSE Awaits([asked EXCEPT !.pc = "pidof"], [cache EXCEPT ![appName] = Null])
        ELSE IF call.pc = "pidof"
        THEN IF fail
             THEN Outcome(asked, cache, FALSE, "EnumerationError", <<>>)
             ELSE Awaits([asked EXCEPT !.pc = "match", !.pids = pids], cache)
        ELSE IF fail
        THEN Outcome(asked, cache, FALSE, "ToolError", <<>>)
        ELSE IF matchingPid = Null
        THEN Outcome(asked, cache, FALSE, "ApplicationNotPlaying", <<>>)
        ELSE Outcome(asked, [cache EXCEPT ![appName] = matchingPid], TRUE, "",
                     PidSinkId(matchingPid))

\* getApplicationSink without pidCache.set on a match
getApplicationSink_NoCacheWrite(call, cache, fail) ==
    LET appName == call.record.name
        asked == [call EXCEPT !.issued =
                     Append(@, IF call.pc = "pidof" THEN CmdPidof(appName) ELSE CmdStatus)]
        pids == getApplicationPids(appName)
        matchingPid == findMatchingPidInWpctl(call.pids, statusReport)
    IN  IF call.pc = "start"
        THEN IF cache[appName] # Null
             THEN Awaits([call EXCEPT !.pc = "verify", !.cachedPid = cache[appName]], cache)
             ELSE Awaits([call EXCEPT !.pc = "pidof"], cache)
        ELSE IF call.pc = "verify"
        THEN IF fail
             THEN Outcome(asked, cache, FALSE, "ToolError", <<>>)
             ELSE IF verifyPidInWpctl(call.cachedPid)
             THEN Outcome(asked, cache, TRUE, "", PidSinkId(call.cachedPid))
             ELSE Awaits([asked EXCEPT !.pc = "pidof"], [cache EXCEPT ![appName] = Null])
        ELSE IF call.pc = "pidof"
        THEN IF fail
             THEN Outcome(asked, cache, FALSE, "EnumerationError", <<>>)
             ELSE IF Len(pids) = 0
             THEN Outcome(asked, cache, FALSE, "ApplicationNotFound", <<>>)
             ELSE Awaits([asked EXCEPT !.pc = "match", !.pids = pids], cache)
        ELSE IF fail
        THEN Outcome(asked, cache, FALSE, "ToolError", <<>>)
        ELSE IF matchingPid = Null
        THEN Outcome(asked, cache, FALSE, "ApplicationNotPlaying", <<>>)
        ELSE Outcome(asked, cache, TRUE, "",
                     PidSinkId(matchingPid))

\* getApplicationSink that drops the cached entry whenever it is looked at
getApplicationSink_EvictAlways(call, cache, fail) ==
    LET appName == call.record.name
        asked == [call EXCEPT !.issued =
                     Append(@, IF call.pc = "pidof" THEN CmdPidof(appName) ELSE CmdStatus)]
        pids == getApplicationPids(appName)
        matchingPid == findMatchingPidInWpctl(call.pids, statusReport)
    IN  IF call.pc = "start"
        THEN IF cache[appName] # Null
             THEN Awaits([call EXCEPT !.pc = "verify", !.cachedPid = cache[appName]], cache)
             ELSE Awaits([call EXCEPT !.pc = "pidof"], cache)
        ELSE IF call.pc = "verify"
        THEN IF fail
             THEN Outcome(asked, cache, FALSE, "ToolError", <<>>)
             ELSE IF verifyPidInWpctl(call.cachedPid)
             THEN Outcome(asked, [cache EXCEPT ![appName] = Null], TRUE, "", PidSinkId(call.cachedPid))
             ELSE Awaits([asked EXCEPT !.pc = "pidof"], [cache EXCEPT ![appName] = Null])
        ELSE IF call.pc = "pidof"
        THEN IF fail
             THEN Outcome(asked, cache, FALSE, "EnumerationError", <<>>)
             ELSE IF Len(pids) = 0
             THEN Outcome(asked, cache, FALSE, "ApplicationNotFound", <<>>)
             ELSE Awaits([asked EXCEPT !.pc = "match", !.pids = pids], cache)
        ELSE IF fail
        THEN Outcome(asked, cache, FALSE, "ToolError", <<>>)
        ELSE IF matchingPid = Null
        THEN Outcome(asked, cache, FALSE, "ApplicationNotPlaying", <<>>)
        ELSE Outcome(asked, [cache EXCEPT ![appName] = matchingPid], TRUE, "",
                     PidSinkId(matchingPid))

\* getApplicationPids whose catch block returns [] for every failure of pidof
getApplicationSink_AnyFailureIsEmpty(call, cache, fail) ==
    LET appName == call.record.name
        asked == [call EXCEPT !.issued =
                     Append(@, IF call.pc = "pidof" THEN CmdPidof(appName) ELSE CmdStatus)]
        pids == getApplicationPids(appName)
        matchingPid == findMatchingPidInWpctl(call.pids, statusReport)
    IN  IF call.pc = "start"
        THEN IF cache[appName] # Null
             THEN Awaits([call EXCEPT !.pc = "verify", !.cachedPid = cache[appName]], cache)
             ELSE Awaits([call EXCEPT !.pc = "pidof"], cache)
        ELSE IF call.pc = "verify"
        THEN IF fail
             THEN Outcome(asked, cache, FALSE, "ToolError", <<>>)
             ELSE IF verifyPidInWpctl(call.cachedPid)
             THEN Outcome(asked, cache, TRUE, "", PidSinkId(call.cachedPid))
             ELSE Awaits([asked EXCEPT !.pc = "pidof"], [cache EXCEPT ![appName] = Null])
        ELSE IF call.pc = "pidof"
        THEN IF fail
             THEN Outcome(asked, cache, FALSE, "ApplicationNotFound", <<>>)
             ELSE IF Len(pids) = 0
             THEN Outcome(asked, cache, FALSE, "ApplicationNotFound", <<>>)
             ELSE Awaits([asked EXCEPT !.pc = "match", !.pids = pids], cache)
        ELSE IF fail
        THEN Outcome(asked, cache, FALSE, "ToolError", <<>>)
        ELSE IF matchingPid = Null
        THEN Outcome(asked, cache, FALSE, "ApplicationNotPlaying", <<>>)
        ELSE Outcome(asked, [cache EXCEPT ![appName] = matchingPid], TRUE, "",
                     PidSinkId(matchingPid))

\* getApplicationSink that drops the entry when the status query of the
\* validation fails
getApplicationSink_FailedQueryEvicts(call, cache, fail) ==
    LET appName == call.record.name
        asked == [call EXCEPT !.issued =
                     Append(@, IF call.pc = "pidof" THEN CmdPidof(appName) ELSE CmdStatus)]
        pids == getApplicationPids(appName)
        matchingPid == findMatchingPidInWpctl(call.pids, statusReport)
    IN  IF call.pc = "start"
        THEN IF cache[appName] # Null
             THEN Awaits([call EXCEPT !.pc = "verify", !.cachedPid = cache[appName]], cache)
             ELSE Awaits([call EXCEPT !.pc = "pidof"], cache)
        ELSE IF call.pc = "verify"
        THEN IF fail
             THEN Outcome(asked, [cache EXCEPT ![appName] = Null], FALSE, "ToolError", <<>>)
             ELSE IF verifyPidInWpctl(call.cachedPid)
             THEN Outcome(asked, cache, TRUE, "", PidSinkId(call.cachedPid))
             ELSE Awaits([asked EXCEPT !.pc = "pidof"], [cache EXCEPT ![appName] = Null])
        ELSE IF call.pc = "pidof"
        THEN IF fail
             THEN Outcome(asked, cache, FALSE, "EnumerationError", <<>>)
             ELSE IF Len(pids) = 0
             THEN Outcome(asked, cache, FALSE, "ApplicationNotFound", <<>>)
             ELSE Awaits([asked EXCEPT !.pc = "match", !.pids = pids], cache)
        ELSE IF fail
        THEN Outcome(asked, cache, FALSE, "ToolError", <<>>)
        ELSE IF matchingPid = Null
        THEN Outcome(asked, cache, FALSE, "ApplicationNotPlaying", <<>>)
        ELSE Outcome(asked, [cache EXCEPT ![appName] = matchingPid], TRUE, "",
                     PidSinkId(matchingPid))

\* getApplicationSink from one await to the next: from its start
\* (call.pc = "start") to the first command it awaits, or from the answer to
\* the command it awaits (the `wpctl status` of the validation, pidof, the
\* `wpctl status` of the match) to the next command or to its return. The
\* answer is read off procs and statusReport as they are when the command
\* returns; fail makes the command fail. cache is pidCache at that moment.
getApplicationSink(call, cache, fail) ==
    LET appName == call.record.name
        asked == [call EXCEPT !.issued =
                     Append(@, IF call.pc = "pidof" THEN CmdPidof(appName) ELSE CmdStatus)]
        pids == getApplicationPids(appName)
        matchingPid == findMatchingPidInWpctl(call.pids, statusReport)
    IN  IF call.pc = "start"
        THEN IF cache[appName] # Null
             THEN Awaits([call EXCEPT !.pc = "verify", !.cachedPid = cache[appName]], cache)
             ELSE Awaits([call EXCEPT !.pc = "pidof"], cache)
        ELSE IF call.pc = "verify"
        THEN IF fail
             THEN Outcome(asked, cache, FALSE, "ToolError", <<>>)
             ELSE IF verifyPidInWpctl(call.cachedPid)
             THEN Outcome(asked, cache, TRUE, "", PidSinkId(call.cachedPid))
             ELSE Awaits([asked EXCEPT !.pc = "pidof"], [cache EXCEPT ![appName] = Null])
        ELSE IF call.pc = "pidof"
        THEN IF fail
             THEN Outcome(asked, cache, FALSE, "EnumerationError", <<>>)
             ELSE IF Len(pids) = 0
             THEN Outcome(asked, cache, FALSE, "ApplicationNotFound", <<>>)
             ELSE Awaits([asked EXCEPT !.pc = "match", !.pids = pids], cache)
        ELSE IF fail
        THEN Outcome(asked, cache, FALSE, "ToolError", <<>>)
        ELSE IF matchingPid = Null
        THEN Outcome(asked, cache, FALSE, "ApplicationNotPlaying", <<>>)
        ELSE Outcome(asked, [cache EXCEPT ![appName] = matchingPid], TRUE, "",
                     PidSinkId(matchingPid))

\* getSinkId that resolves a configured application name in system mode too
getSinkId_SystemResolvesName(controlMode, appName, cache) ==
    LET call == Call("start",
                     OpRecord("getSinkId", controlMode, appName, <<>>, 0, TRUE, "", <<>>,
                              0, cache, 0, FALSE),
                     Null, <<>>, 0, <<>>)
    IN  IF appName = ""
        THEN IF controlMode = "system"
             THEN Outcome(call, cache, TRUE, "", getDefaultSink)
             ELSE Outcome(call, cache, FALSE, "ConfigurationError", <<>>)
        ELSE getApplicationSink(call, cache, FALSE)

\* getSinkId that falls back to the default sink when no name is configured
getSinkId_EmptyNameFallsBack(controlMode, appName, cache) ==
    LET call == Call("start",
                     OpRecord("getSinkId", controlMode, appName, <<>>, 0, TRUE, "", <<>>,
                              0, cache, 0, FALSE),
                     Null, <<>>, 0, <<>>)
    IN  IF controlMode = "system" \/ appName = ""
        THEN Outcome(call, cache, TRUE, "", getDefaultSink)
        ELSE getApplicationSink(call, cache, FALSE)

\* getSinkId from the call to its return or to the first command it awaits;
\* appName = "" stands for an absent or empty application name
getSinkId(controlMode, appName, cache) ==
    LET call == Call("start",
                     OpRecord("getSinkId", controlMode, appName, <<>>, 0, TRUE, "", <<>>,
                              0, cache, 0, FALSE),
                     Null, <<>>, 0, <<>>)
    IN  IF controlMode = "system"
        THEN Outcome(call, cache, TRUE, "", getDefaultSink)
        ELSE IF appName = ""
        THEN Outcome(call, cache, FALSE, "ConfigurationError", <<>>)
        ELSE getApplicationSink(call, cache, FALSE)

----------------------------------------------------------------------------
(* The resolver as steps: one step per awaited command *)

InitResolver ==
    /\ pidCache = EmptyCache
    /\ procs \in ProcTables
    /\ statusReport \in Reports
    /\ sinkVolume = 50
    /\ sinkMuted = FALSE
    /\ streamMuted = [p \in Pids |-> FALSE]
    /\ tasks = <<IdleCall>>
    /\ last = Idle
    /\ prev = Idle
    /\ calls = <<>>
    /\ answers = <<>>

\* getSinkId(controlMode, appName) is called: it returns or throws at once,
\* or it runs up to its first awaited command
Resolve(controlMode, appName) ==
    \E t \in DOMAIN tasks, r \in {getSinkId(controlMode, appName, pidCache)} :
        /\ tasks[t].pc = "idle"
        /\ \A u \in 1..(t - 1) : tasks[u].pc # "idle"
        /\ pidCache' = r.cache
        /\ IF r.call.pc = "done"
           THEN tasks' = tasks /\ last' = r.call.record /\ calls' = r.call.issued
           ELSE tasks' = [tasks EXCEPT ![t] = r.call] /\ last' = Idle /\ calls' = <<>>
        /\ prev' = Idle
        /\ answers' = <<>>
        /\ UNCHANGED <<procs, statusReport, sinkVolume, sinkMuted, streamMuted>>

\* the command that call t of getSinkId awaits returns: the call goes on to
\* its next command, or it ends and its record is kept
ResolveReturns(t, fail) ==
    /\ tasks[t].pc \in {"verify", "pidof", "match"}
    /\ \E r \in {getApplicationSink(tasks[t], pidCache, fail)} :
          /\ pidCache' = r.cache
          /\ IF r.call.pc = "done"
             THEN /\ tasks' = [tasks EXCEPT ![t] = IdleCall]
                  /\ last' = r.call.record
                  /\ calls' = r.call.issued
             ELSE /\ tasks' = [tasks EXCEPT ![t] = r.call]
                  /\ last' = Idle
                  /\ calls' = <<>>
    /\ prev' = Idle
    /\ answers' = <<IF fail THEN Answer(2, <<>>, <<>>)
                    ELSE IF tasks[t].pc # "pidof" THEN Answer(0, statusReport, <<>>)
                    ELSE IF procs[tasks[t].record.name] = <<>> THEN Answer(1, <<>>, <<>>)
                    ELSE Answer(0, PidofTokens(tasks[t].record.name), <<>>)>>
    /\ UNCHANGED <<procs, statusReport, sinkVolume, sinkMuted, streamMuted>>

\* a process of program appName starts: pidof lists the pids of a name from
\* the highest to the lowest, whatever the order in which they started
ProcessStart(appName, pid) ==
    /\ Len(procs[appName]) < MaxProcs
    /\ \A a \in AppNames : pid \notin Range(procs[a])
    /\ procs' = [procs EXCEPT ![appName] =
                    SelectSeq(@, LAMBDA p : p > pid) \o <<pid>>
                        \o SelectSeq(@, LAMBDA p : p < pid)]
    /\ last' = Idle /\ prev' = Idle /\ calls' = <<>> /\ answers' = <<>>
    /\ UNCHANGED <<pidCache, statusReport, sinkVolume, sinkMuted, streamMuted, tasks>>

\* the i-th listed process of program appName exits
ProcessExit(appName, i) ==
    /\ i \in 1..Len(procs[appName])
    /\ procs' = [procs EXCEPT ![appName] =
                    SubSeq(@, 1, i - 1) \o SubSeq(@, i + 1, Len(@))]
    /\ last' = Idle /\ prev' = Idle /\ calls' = <<>> /\ answers' = <<>>
    /\ UNCHANGED <<pidCache, statusReport, sinkVolume, sinkMuted, streamMuted, tasks>>

\* the status report grows by a line (a client or a stream appears, a new
\* section starts)
StatusAppend(line) ==
    /\ Len(statusReport) < MaxLines
    /\ statusReport' = Append(statusReport, line)
    /\ last' = Idle /\ prev' = Idle /\ calls' = <<>> /\ answers' = <<>>
    /\ UNCHANGED <<pidCache, procs, sinkVolume, sinkMuted, streamMuted, tasks>>

\* line i of the status report disappears
StatusDrop(i) ==
    /\ i \in 1..Len(statusReport)
    /\ statusReport' = SubSeq(statusReport, 1, i - 1)
                         \o SubSeq(statusReport, i + 1, Len(statusReport))
    /\ last' = Idle /\ prev' = Idle /\ calls' = <<>> /\ answers' = <<>>
    /\ UNCHANGED <<pidCache, procs, sinkVolume, sinkMuted, streamMuted, tasks>>

\* one caller that awaits each call of getSinkId before it makes the next,
\* every command answering or failing, while processes and streams come and
\* go between the commands
NextResolver ==
    \/ \E mode \in {"system", "application"}, name \in AppNames \cup {""} :
          Resolve(mode, name)
    \/ \E t \in DOMAIN tasks, fail \in BOOLEAN : ResolveReturns(t, fail)
    \/ \E name \in AppNames, pid \in Pids : ProcessStart(name, pid)
    \/ \E name \in AppNames, i \in 1..MaxProcs : ProcessExit(name, i)
    \/ \E line \in StatusLines : StatusAppend(line)
    \/ \E i \in 1..MaxLines : StatusDrop(i)

SpecResolver == InitResolver /\ [][NextResolver]_vars

----------------------------------------------------------------------------
(* The status matcher on its own *)

\* a client line as wpctl prints the properties of a client
LineClientProps(pid) ==
    <<"p","i","d"," ">> \o Digits(pid) \o <<",", " ", "a","p","p","l","i","c","a","t","i","o","n",
      ".","n","a","m","e"," ","="," ","\"","M","u","s","i","c"," ","P","l","a","y","e","r","\"">>

\* an indented line that starts with a capital letter
LineNamedEntry(pid) == <<" ","V","l","c"," ">> \o Digits(pid)

\* the reports the matcher is run on; one of the lines names both pids, one
\* is the entry of process 4821 under the object id 48
MatchReports ==
    SeqsUpTo(StatusLines \cup {LineClientProps(4821), LineNamedEntry(48),
                               LineEntry(48) \o LineEntry(4821),
                               <<" ","4","8","."," ","[","p","i","d",":",
                                 "4","8","2","1","]">>},
             MaxMatchLines)

InitMatch ==
    /\ pidCache = EmptyCache
    /\ procs \in ProcTables
    /\ statusReport \in MatchReports
    /\ sinkVolume = 50
    /\ sinkMuted = FALSE
    /\ streamMuted = [p \in Pids |-> FALSE]
    /\ tasks = <<>>
    /\ last = Idle
    /\ prev = Idle
    /\ calls = <<>>
    /\ answers = <<>>

\* findMatchingPidInWpctl(pids, output) for the pids enumerated for appName
\* and the status report
MatchStatus(appName) ==
    /\ last' = OpRecord("findMatchingPidInWpctl", "", appName, <<>>, 0, TRUE, "", <<>>,
                        findMatchingPidInWpctl(getApplicationPids(appName), statusReport),
                        pidCache, 0, FALSE)
    /\ prev' = Idle
    /\ calls' = <<>>
    /\ UNCHANGED <<pidCache, procs, statusReport, sinkVolume, sinkMuted, streamMuted, tasks, answers>>

NextMatch == \E appName \in AppNames : MatchStatus(appName)

SpecMatch == InitMatch /\ [][NextMatch]_vars

----------------------------------------------------------------------------
(* Numbers in text *)

RECURSIVE Pow10(_)
Pow10(n) == IF n = 0 THEN 1 ELSE 10 * Pow10(n - 1)

Min(a, b) == IF a < b THEN a ELSE b
Max(a, b) == IF a > b THEN a ELSE b

\* a decimal fraction num / den; den = 0 stands for NaN
NaNFloat == [num |-> 0, den |-> 0]

\* parseFloat(s) for unsigned text: digits, then at most one "." with digits
ParseFloat(s) ==
    LET ni == RunLength(s, 1, DigitChars)
        hasDot == ni < Len(s) /\ s[ni + 1] = "."
        nf == IF hasDot THEN RunLength(s, ni + 2, DigitChars) ELSE 0
    IN  IF ni + nf = 0 THEN NaNFloat
        ELSE [num |-> DigitsValue(SubSeq(s, 1, ni) \o SubSeq(s, ni + 2, ni + 1 + nf)),
              den |-> Pow10(nf)]

\* Math.round((volume / 1.0) * 100) for a fraction below 10 written with at
\* most four decimals. The product is computed in binary floating point: it
\* rounds like the exact product except at the halves, m + 0.5, where the
\* double nearest to (m + 0.5) / 100, times 100, is either m + 0.5 and rounds
\* up to m + 1 or falls just below it and rounds down to m ("0.285" gives
\* 28, "0.125" gives 13). roundedDown lists the m of the second kind.
RoundTimes100(volume) ==
    LET exact == (200 * volume.num + volume.den) \div (2 * volume.den)
        isHalf == (200 * volume.num + volume.den) % (2 * volume.den) = 0
        roundedDown == {14, 28, 56, 57, 100, 101, 102, 103, 125, 126, 127, 213, 215,
                           217, 219, 238, 240, 242, 244, 401, 414, 418, 422, 426, 439,
                           443, 447, 451, 464, 468, 472, 476, 489, 493, 497, 501, 807,
                           815, 816, 824, 832, 840, 841, 849, 857, 865, 866, 874, 882,
                           890, 891, 899, 907, 915, 916, 924, 932, 940, 941, 949, 957,
                           965, 966, 974, 982, 990, 991, 999}
    IN  IF isHalf /\ (exact - 1) \in roundedDown THEN exact - 1 ELSE exact

\* (percentage / 100).toFixed(1): one decimal only
toFixed2_OneDecimal(percentage) ==
    Digits(((percentage + 5) \div 10) \div 10)
        \o <<".", DigitChar(((percentage + 5) \div 10) % 10)>>

\* (percentage / 100).toFixed(2) for an integer percentage
toFixed2(percentage) ==
    Digits(percentage \div 100)
        \o <<".", DigitChar((percentage \div 10) % 10), DigitChar(percentage % 10)>>

TxtVolumeColon == <<"V","o","l","u","m","e",":">>
TxtMuted == <<"[","M","U","T","E","D","]">>
TxtNaN == <<"N","a","N">>
TxtPidFlag == <<"-","-","p","i","d"," ">>

\* output.match(/Volume:\s*([\d.]+)/): the captured group of the leftmost
\* match, <<>> when there is no match
VolumeCapture(output) ==
    LET NumChars == DigitChars \cup {"."}
        GroupStart(i) == i + Len(TxtVolumeColon)
                           + RunLength(output, i + Len(TxtVolumeColon), SpaceChars)
        Matches(i) == /\ SubSeq(output, i, i + Len(TxtVolumeColon) - 1) = TxtVolumeColon
                      /\ RunLength(output, GroupStart(i), NumChars) > 0
        starts == {i \in 1..(Len(output) - Len(TxtVolumeColon) + 1) : Matches(i)}
    IN  IF starts = {} THEN <<>>
        ELSE LET i == CHOOSE m \in starts : \A o \in starts : m <= o
             IN  SubSeq(output, GroupStart(i),
                        GroupStart(i) + RunLength(output, GroupStart(i), NumChars) - 1)

----------------------------------------------------------------------------
(* wpctl, as the facade sees it (agent.md, "wpctl Command Patterns") *)

\* stdout of `wpctl get-volume @DEFAULT_AUDIO_SINK@`: "Volume: 0.50" or
\* "Volume: 0.50 [MUTED]"
WpctlGetVolumeOutput(volume, muted) ==
    TxtVolumeColon \o <<" ">> \o Digits(volume \div 100)
        \o <<".", DigitChar((volume \div 10) % 10), DigitChar(volume % 10)>>
        \o (IF muted THEN <<" ">> \o TxtMuted ELSE <<>>)

\* the volume, in hundredths, that `wpctl set-volume <target> <value>` stores
\* for a value with two decimals; NaN when the value is no such fraction
WpctlParseVolume(value) ==
    LET f == ParseFloat(value)
    IN  IF f.den = 0 \/ (100 * f.num) % f.den # 0 THEN NaN
        ELSE (100 * f.num) \div f.den

\* the magnitude of a relative volume argument such as "0.05+", as the
\* fraction wpctl reads before the sign
WpctlRelativeMagnitude(value) == ParseFloat(SubSeq(value, 1, Len(value) - 1))

WpctlRelativeSign(value) == value[Len(value)]

TxtToggle == <<"t","o","g","g","l","e">>

\* the pid named by a target of the form "--pid 1234", Null for another target
WpctlTargetPid(target) ==
    IF StartsWith(target, TxtPidFlag)
    THEN ParseInt(SubSeq(target, Len(TxtPidFlag) + 1, Len(target)))
    ELSE Null

\* the stream mute flags after wpctl has run the commands of a call r that
\* succeeded: `wpctl set-mute --pid 1234 toggle` flips the flag of pid 1234
WpctlStreamsAfter(streams, r) ==
    [p \in DOMAIN streams |->
        IF /\ r.ok
           /\ \E k \in 1..Len(r.calls) :
                  /\ r.calls[k].sub = "set-mute"
                  /\ r.calls[k].value = TxtToggle
                  /\ WpctlTargetPid(r.calls[k].target) = p
        THEN ~streams[p]
        ELSE streams[p]]

----------------------------------------------------------------------------
(* The volume facade *)

\* what one facade call produced: the value returned or the error thrown,
\* the commands issued, and the state in which it leaves the default sink
FacadeOutcome(ok, error, value, issued, volume, muted) ==
    [ok |-> ok, error |-> error, value |-> value, calls |-> issued,
     volume |-> volume, muted |-> muted]

CmdGetVolume(sinkId) == Cmd("wpctl", "get-volume", sinkId, <<>>)
CmdSetVolume(target, value) == Cmd("wpctl", "set-volume", target, value)
CmdSetMute(target) == Cmd("wpctl", "set-mute", target, TxtToggle)

\* the tail of getVolume without the Math.min(..., 100) ceiling
VolumeToPercentage_NoCeiling(volume) ==
    IF volume.den = 0 THEN NaN
    ELSE Max(0, RoundTimes100(volume))

\* the tail of getVolume: scale the parsed fraction to a percentage
VolumeToPercentage(volume) ==
    IF volume.den = 0 THEN NaN
    ELSE Max(0, Min(RoundTimes100(volume), MaxPercent))

\* the body of getVolume's try block once wpctl has answered with output
ParseVolumeOutput(sinkId, capture) ==
    IF capture = <<>>
    THEN FacadeOutcome(FALSE, "ParseError", 0, <<CmdGetVolume(sinkId)>>,
                       sinkVolume, sinkMuted)
    ELSE FacadeOutcome(TRUE, "", VolumeToPercentage(ParseFloat(capture)),
                       <<CmdGetVolume(sinkId)>>, sinkVolume, sinkMuted)

\* failAt = k makes the k-th external command of the call fail (0: none fails)
getVolume(sinkId, failAt) ==
    IF isPidBased(sinkId)
    THEN FacadeOutcome(FALSE, "UnsupportedOperation", 0, <<>>, sinkVolume, sinkMuted)
    ELSE IF failAt = 1
    THEN FacadeOutcome(FALSE, "ToolError", 0, <<CmdGetVolume(sinkId)>>,
                       sinkVolume, sinkMuted)
    ELSE ParseVolumeOutput(sinkId,
                           VolumeCapture(WpctlGetVolumeOutput(sinkVolume, sinkMuted)))

\* the wpctl call of setVolume: it throws exactly when the command fails;
\* stored is what wpctl makes of the value text, the sink staying as it is
\* when the text is not a fraction
RunSetVolume(current, cmd, stored, failAt) ==
    IF failAt = 1
    THEN FacadeOutcome(FALSE, "ToolError", 0, <<cmd>>, current, sinkMuted)
    ELSE FacadeOutcome(TRUE, "", 0, <<cmd>>, IF stored = NaN THEN current ELSE stored,
                       sinkMuted)

\* the value text `${volume.toFixed(2)}` of setVolume
VolumeArgument(percentage) ==
    IF percentage = NaN THEN TxtNaN
    ELSE toFixed2(Max(0, Min(MaxPercent, percentage)))

\* setVolume starting from the default sink at volume `current`
setVolumeFrom(current, sinkId, percentage, failAt) ==
    IF isPidBased(sinkId)
    THEN FacadeOutcome(FALSE, "UnsupportedOperation", 0, <<>>, current, sinkMuted)
    ELSE RunSetVolume(current, CmdSetVolume(sinkId, VolumeArgument(percentage)),
                      WpctlParseVolume(VolumeArgument(percentage)), failAt)

setVolume(sinkId, percentage, failAt) ==
    setVolumeFrom(sinkVolume, sinkId, percentage, failAt)

getMuteState(sinkId, failAt) ==
    LET output == WpctlGetVolumeOutput(sinkVolume, sinkMuted)
    IN  IF isPidBased(sinkId)
        THEN FacadeOutcome(FALSE, "UnsupportedOperation", 0, <<>>, sinkVolume, sinkMuted)
        ELSE IF failAt = 1
        THEN FacadeOutcome(FALSE, "ToolError", 0, <<CmdGetVolume(sinkId)>>,
                           sinkVolume, sinkMuted)
        ELSE FacadeOutcome(TRUE, "", IF Includes(output, TxtMuted) THEN 1 ELSE 0,
                           <<CmdGetVolume(sinkId)>>, sinkVolume, sinkMuted)

\* toggleMute without the --pid branch: the identifier itself is the target
toggleMute_NoPidScope(sinkId, failAt) ==
    LET pid == extractPid(sinkId)
        cmd == CmdSetMute(sinkId)
    IN  IF isPidBased(sinkId) /\ pid = NaN
        THEN FacadeOutcome(FALSE, "InvalidSinkId", 0, <<>>, sinkVolume, sinkMuted)
        ELSE IF failAt = 1
        THEN FacadeOutcome(FALSE, "ToolError", 0, <<cmd>>, sinkVolume, sinkMuted)
        ELSE FacadeOutcome(TRUE, "", 0, <<cmd>>, sinkVolume,
                           IF isPidBased(sinkId) THEN sinkMuted ELSE ~sinkMuted)

toggleMute(sinkId, failAt) ==
    LET pid == extractPid(sinkId)
        cmd == IF isPidBased(sinkId) THEN CmdSetMute(TxtPidFlag \o Digits(pid))
               ELSE CmdSetMute(sinkId)
    IN  IF isPidBased(sinkId) /\ pid = NaN
        THEN FacadeOutcome(FALSE, "InvalidSinkId", 0, <<>>, sinkVolume, sinkMuted)
        ELSE IF failAt = 1
        THEN FacadeOutcome(FALSE, "ToolError", 0, <<cmd>>, sinkVolume, sinkMuted)
        ELSE FacadeOutcome(TRUE, "", 0, <<cmd>>, sinkVolume,
                           IF isPidBased(sinkId) THEN sinkMuted ELSE ~sinkMuted)

Abs(n) == IF n < 0 THEN 0 - n ELSE n

\* the argument `0.0${absDelta}${sign}` of the relative set-volume command
RelativeArgument(deltaPercentage) ==
    <<"0",".","0">> \o Digits(Abs(deltaPercentage))
        \o <<IF deltaPercentage >= 0 THEN "+" ELSE "-">>

\* the default-sink branch of adjustVolume with the delta subtracted
AdjustFromRead_Subtract(sinkId, deltaPercentage, read, failAt) ==
    IF ~read.ok THEN read
    ELSE LET currentVolume == read.value
             newVolume == IF currentVolume = NaN THEN NaN
                          ELSE Max(0, Min(MaxPercent, currentVolume - deltaPercentage))
         IN  [setVolumeFrom(sinkVolume, sinkId, newVolume, IF failAt = 2 THEN 1 ELSE 0)
                 EXCEPT !.calls = read.calls \o @]

\* the default-sink branch of adjustVolume once its getVolume has returned
\* read: the volume at that later moment is sinkVolume
AdjustFromRead(sinkId, deltaPercentage, read, failAt) ==
    IF ~read.ok THEN read
    ELSE LET currentVolume == read.value
             newVolume == IF currentVolume = NaN THEN NaN
                          ELSE Max(0, Min(MaxPercent, currentVolume + deltaPercentage))
         IN  [setVolumeFrom(sinkVolume, sinkId, newVolume, IF failAt = 2 THEN 1 ELSE 0)
                 EXCEPT !.calls = read.calls \o @]

\* adjustVolume that sends the relative command to every kind of sink
adjustVolume_AlwaysRelative(sinkId, deltaPercentage, failAt) ==
    LET target == IF isPidBased(sinkId) THEN TxtPidFlag \o Digits(extractPid(sinkId))
                  ELSE sinkId
        cmd == CmdSetVolume(target, RelativeArgument(deltaPercentage))
    IN  [awaitsSet |-> FALSE,
         r |-> IF isPidBased(sinkId) /\ extractPid(sinkId) = NaN
               THEN FacadeOutcome(FALSE, "InvalidSinkId", 0, <<>>, sinkVolume, sinkMuted)
               ELSE IF failAt = 1
               THEN FacadeOutcome(FALSE, "ToolError", 0, <<cmd>>, sinkVolume, sinkMuted)
               ELSE FacadeOutcome(TRUE, "", 0, <<cmd>>, sinkVolume, sinkMuted)]

\* adjustVolume up to the return of its first command. On a PID-based sink
\* that is the whole call and r its outcome; on the default sink r is the
\* outcome of getVolume, and the call goes on to await setVolume (awaitsSet)
\* when the read succeeded
adjustVolume(sinkId, deltaPercentage, failAt) ==
    IF isPidBased(sinkId)
    THEN LET pid == extractPid(sinkId)
             cmd == CmdSetVolume(TxtPidFlag \o Digits(pid),
                                 RelativeArgument(deltaPercentage))
         IN  [awaitsSet |-> FALSE,
              r |-> IF pid = NaN
                    THEN FacadeOutcome(FALSE, "InvalidSinkId", 0, <<>>, sinkVolume, sinkMuted)
                    ELSE IF failAt = 1
                    THEN FacadeOutcome(FALSE, "ToolError", 0, <<cmd>>, sinkVolume, sinkMuted)
                    ELSE FacadeOutcome(TRUE, "", 0, <<cmd>>, sinkVolume, sinkMuted)]
    ELSE LET read == getVolume(sinkId, failAt)
         IN  [awaitsSet |-> read.ok, r |-> read]

----------------------------------------------------------------------------
(* Facade operations as steps *)

PidSinks == {PidSinkId(p) : p \in Pids}

\* the mute flag wpctl holds for the target of a sink identifier
TargetMuted(sinkId) ==
    IF sinkId \in PidSinks THEN streamMuted[extractPid(sinkId)] ELSE sinkMuted

FacadeRecord(op, sinkId, arg, r, volBefore) ==
    OpRecord(op, "", "", sinkId, arg, r.ok, r.error, <<>>, r.value, pidCache, volBefore,
             TargetMuted(sinkId))

\* a query keeps the operation it follows in prev, so that a read-back can
\* be related to the mutation before it
GetVolume(sinkId, failAt) ==
    \E r \in {getVolume(sinkId, failAt)} :
        /\ last' = FacadeRecord("getVolume", sinkId, 0, r, 0)
        /\ prev' = last
        /\ calls' = r.calls
        /\ sinkVolume' = r.volume /\ sinkMuted' = r.muted
        /\ UNCHANGED <<pidCache, procs, statusReport, streamMuted, tasks, answers>>

GetMuteState(sinkId, failAt) ==
    \E r \in {getMuteState(sinkId, failAt)} :
        /\ last' = FacadeRecord("getMuteState", sinkId, 0, r, 0)
        /\ prev' = last
        /\ calls' = r.calls
        /\ sinkVolume' = r.volume /\ sinkMuted' = r.muted
        /\ UNCHANGED <<pidCache, procs, statusReport, streamMuted, tasks, answers>>

SetVolume(sinkId, percentage, failAt) ==
    \E r \in {setVolume(sinkId, percentage, failAt)} :
        /\ last' = FacadeRecord("setVolume", sinkId, percentage, r, 0)
        /\ prev' = Idle
        /\ calls' = r.calls
        /\ sinkVolume' = r.volume /\ sinkMuted' = r.muted
        /\ UNCHANGED <<pidCache, procs, statusReport, streamMuted, tasks, answers>>

\* a toggle keeps the toggle it follows in prev, so that a pair of toggles
\* can be related; wpctl applies the command issued to the stream it names
ToggleMute(sinkId, failAt) ==
    \E r \in {toggleMute(sinkId, failAt)} :
        /\ last' = FacadeRecord("toggleMute", sinkId, 0, r, 0)
        /\ prev' = IF last.op = "toggleMute" THEN last ELSE Idle
        /\ calls' = r.calls
        /\ sinkVolume' = r.volume /\ sinkMuted' = r.muted
        /\ streamMuted' = WpctlStreamsAfter(streamMuted, r)
        /\ UNCHANGED <<pidCache, procs, statusReport, tasks, answers>>

\* adjustVolume is called and its first command returns: the call is over,
\* or it takes the first free slot of tasks to await its setVolume, with the
\* volume it read in cur
AdjustVolume(sinkId, deltaPercentage, failAt) ==
    \E t \in DOMAIN tasks, a \in {adjustVolume(sinkId, deltaPercentage, failAt)} :
        /\ tasks[t].pc = "idle"
        /\ \A u \in 1..(t - 1) : tasks[u].pc # "idle"
        /\ IF a.awaitsSet
           THEN /\ tasks' = [tasks EXCEPT ![t] =
                                Call("adjustSet",
                                     FacadeRecord("adjustVolume", sinkId, deltaPercentage,
                                                  a.r, sinkVolume),
                                     Null, <<>>, a.r.value, a.r.calls)]
                /\ last' = Idle
                /\ calls' = <<>>
           ELSE /\ tasks' = tasks
                /\ last' = FacadeRecord("adjustVolume", sinkId, deltaPercentage, a.r,
                                        sinkVolume)
                /\ calls' = a.r.calls
        /\ prev' = Idle
        /\ sinkVolume' = a.r.volume /\ sinkMuted' = a.r.muted
        /\ UNCHANGED <<pidCache, procs, statusReport, streamMuted, answers>>

\* the setVolume of the adjustVolume call in slot t returns (failAt = 2: it
\* fails) and the call is over
AdjustVolumeSet(t, failAt) ==
    /\ tasks[t].pc = "adjustSet"
    /\ \E r \in {AdjustFromRead(tasks[t].record.sink, tasks[t].record.arg,
                                FacadeOutcome(TRUE, "", tasks[t].cur, tasks[t].issued,
                                              sinkVolume, sinkMuted),
                                failAt)} :
          /\ last' = FacadeRecord("adjustVolume", tasks[t].record.sink,
                                  tasks[t].record.arg, r, tasks[t].record.volBefore)
          /\ calls' = r.calls
          /\ sinkVolume' = r.volume /\ sinkMuted' = r.muted
    /\ tasks' = [tasks EXCEPT ![t] = IdleCall]
    /\ prev' = Idle
    /\ UNCHANGED <<pidCache, procs, statusReport, streamMuted, answers>>

\* another audio client (a desktop mixer) moves the default sink's volume
MixerVolume(step) ==
    /\ sinkVolume + step \in 0..MaxToolVolume
    /\ sinkVolume' = sinkVolume + step
    /\ last' = Idle /\ prev' = Idle /\ calls' = <<>> /\ answers' = <<>>
    /\ UNCHANGED <<pidCache, procs, statusReport, sinkMuted, streamMuted, tasks>>

\* another audio client mutes or unmutes the default sink
MixerMute ==
    /\ sinkMuted' = ~sinkMuted
    /\ last' = Idle /\ prev' = Idle /\ calls' = <<>> /\ answers' = <<>>
    /\ UNCHANGED <<pidCache, procs, statusReport, sinkVolume, streamMuted, tasks>>

InitFacade ==
    /\ pidCache = EmptyCache
    /\ procs = [a \in AppNames |-> <<>>]
    /\ statusReport = <<>>
    /\ sinkVolume \in 0..MaxToolVolume
    /\ sinkMuted \in BOOLEAN
    /\ streamMuted = [p \in Pids |-> FALSE]
    /\ tasks = <<IdleCall, IdleCall>>
    /\ last = Idle
    /\ prev = Idle
    /\ calls = <<>>
    /\ answers = <<>>

\* the facade on the default sink, wpctl answering every command: one caller
\* that awaits each call before it makes the next, while the desktop mixer
\* moves the sink at any moment, between the read and the write of
\* adjustVolume too (there by MaxDrift hundredths at most)
NextDefaultSink ==
    \/ tasks[1].pc = "idle" /\ GetVolume(getDefaultSink, 0)
    \/ tasks[1].pc = "idle" /\ GetMuteState(getDefaultSink, 0)
    \/ \E percentage \in (0 - MaxDelta)..(MaxPercent + MaxDelta) :
          tasks[1].pc = "idle" /\ SetVolume(getDefaultSink, percentage, 0)
    \/ tasks[1].pc = "idle" /\ ToggleMute(getDefaultSink, 0)
    \/ \E delta \in (0 - MaxDelta)..MaxDelta :
          tasks[1].pc = "idle" /\ AdjustVolume(getDefaultSink, delta, 0)
    \/ AdjustVolumeSet(1, 0)
    \/ \E step \in {0 - 1, 1} :
          /\ tasks[1].pc = "adjustSet" =>
                 Abs(sinkVolume + step - tasks[1].record.volBefore) <= MaxDrift
          /\ MixerVolume(step)
    \/ MixerMute

SpecDefaultSink == InitFacade /\ [][NextDefaultSink]_vars

\* the facade on process sinks, wpctl answering or failing
NextProcessSink ==
    \/ \E sinkId \in PidSinks, failAt \in 0..1 : GetVolume(sinkId, failAt)
    \/ \E sinkId \in PidSinks, failAt \in 0..1 : GetMuteState(sinkId, failAt)
    \/ \E sinkId \in PidSinks, percentage \in (0 - MaxDelta)..(MaxPercent + MaxDelta), failAt \in 0..1 :
          SetVolume(sinkId, percentage, failAt)
    \/ \E sinkId \in PidSinks, failAt \in 0..1 : ToggleMute(sinkId, failAt)
    \/ \E sinkId \in PidSinks, delta \in (0 - MaxDelta)..MaxDelta, failAt \in 0..1 :
          AdjustVolume(sinkId, delta, failAt)
    \/ MixerMute

InitProcessSink == InitFacade /\ sinkVolume = 50

SpecProcessSink == InitProcessSink /\ [][NextProcessSink]_vars

\* another audio client mutes or unmutes the streams of a process
StreamMute(pid) ==
    /\ streamMuted' = [streamMuted EXCEPT ![pid] = ~@]
    /\ last' = Idle /\ prev' = Idle /\ calls' = <<>> /\ answers' = <<>>
    /\ UNCHANGED <<pidCache, procs, statusReport, sinkVolume, sinkMuted, tasks>>

AllSinks == PidSinks \cup {getDefaultSink}

\* muting on either kind of sink, wpctl answering or failing
NextMute ==
    \/ \E sinkId \in AllSinks, failAt \in 0..1 : ToggleMute(sinkId, failAt)
    \/ \E sinkId \in AllSinks, failAt \in 0..1 : GetMuteState(sinkId, failAt)
    \/ MixerMute
    \/ \E pid \in Pids : StreamMute(pid)

SpecMute == InitProcessSink /\ [][NextMute]_vars

\* every facade operation on either kind of sink, wpctl answering or failing
\* at any of the commands of the call. Calls are made when no call is under
\* way, but for one: adjustVolume may be called a second time on the default
\* sink while the first call of it awaits its setVolume, and no third call
\* is made before both are over
NextFacade ==
    \/ \E sinkId \in AllSinks, failAt \in 0..1 :
          tasks = <<IdleCall, IdleCall>> /\ GetVolume(sinkId, failAt)
    \/ \E sinkId \in AllSinks, failAt \in 0..1 :
          tasks = <<IdleCall, IdleCall>> /\ GetMuteState(sinkId, failAt)
    \/ \E sinkId \in AllSinks, percentage \in {0 - MaxDelta, 42, MaxPercent + MaxDelta}, failAt \in 0..1 :
          tasks = <<IdleCall, IdleCall>> /\ SetVolume(sinkId, percentage, failAt)
    \/ \E sinkId \in AllSinks, failAt \in 0..1 :
          tasks = <<IdleCall, IdleCall>> /\ ToggleMute(sinkId, failAt)
    \/ \E sinkId \in AllSinks, delta \in {0 - MaxDelta, MaxDelta}, failAt \in 0..1 :
          /\ \/ tasks = <<IdleCall, IdleCall>>
             \/ sinkId = getDefaultSink /\ tasks[2] = IdleCall /\ last = Idle
          /\ AdjustVolume(sinkId, delta, failAt)
    \/ \E t \in DOMAIN tasks, failAt \in {0, 2} : AdjustVolumeSet(t, failAt)

InitFacadeAll == InitFacade /\ sinkVolume \in {50, MaxToolVolume}

SpecFacade == InitFacadeAll /\ [][NextFacade]_vars

----------------------------------------------------------------------------
(* The facade against explicit tool results: what execWpctl makes of the   *)
(* exit code, stdout and stderr of a wpctl run. stderr is kept as its      *)
(* lines; a text includes a word exactly when one of its lines does.       *)

\* execWpctl once execAsync has settled: a non-zero exit rejects; otherwise
\* stderr && !stderr.includes("Warning") throws, and stdout.trim() is returned
execWpctl(answer) ==
    LET lead == RunLength(answer.stdout, 1, SpaceChars)
        trail == CHOOSE n \in 0..Len(answer.stdout) :
                     /\ \A k \in 1..n :
                            answer.stdout[Len(answer.stdout) + 1 - k] \in SpaceChars
                     /\ n < Len(answer.stdout) =>
                            answer.stdout[Len(answer.stdout) - n] \notin SpaceChars
    IN  IF answer.code # 0
        THEN [ok |-> FALSE, output |-> <<>>]
        ELSE IF /\ answer.stderr # <<>>
                /\ ~\E i \in 1..Len(answer.stderr) :
                       Includes(answer.stderr[i], <<"W","a","r","n","i","n","g">>)
        THEN [ok |-> FALSE, output |-> <<>>]
        ELSE [ok |-> TRUE,
              output |-> SubSeq(answer.stdout, lead + 1, Len(answer.stdout) - trail)]

\* getVolume, its `wpctl get-volume` having settled with answer
getVolumeFrom(sinkId, answer) ==
    IF isPidBased(sinkId)
    THEN FacadeOutcome(FALSE, "UnsupportedOperation", 0, <<>>, sinkVolume, sinkMuted)
    ELSE IF ~execWpctl(answer).ok
    THEN FacadeOutcome(FALSE, "ToolError", 0, <<CmdGetVolume(sinkId)>>,
                       sinkVolume, sinkMuted)
    ELSE ParseVolumeOutput(sinkId, VolumeCapture(execWpctl(answer).output))

\* getVolume on the default sink, run to completion against answer
GetVolumeRun(answer) ==
    \E r \in {getVolumeFrom(getDefaultSink, answer)} :
        /\ last' = FacadeRecord("getVolume", getDefaultSink, 0, r, 0)
        /\ prev' = Idle
        /\ calls' = r.calls
        /\ answers' = <<answer>>
        /\ sinkVolume' = r.volume /\ sinkMuted' = r.muted
        /\ UNCHANGED <<pidCache, procs, statusReport, streamMuted, tasks>>

\* adjustVolume is called on the default sink and its get-volume settles
\* with answer: the call is over when getVolume throws, and awaits its
\* setVolume in slot 1 otherwise
AdjustVolumeRun(deltaPercentage, answer) ==
    \E r \in {getVolumeFrom(getDefaultSink, answer)} :
        /\ tasks[1].pc = "idle"
        /\ IF r.ok
           THEN /\ tasks' = [tasks EXCEPT ![1] =
                                Call("adjustSet",
                                     FacadeRecord("adjustVolume", getDefaultSink,
                                                  deltaPercentage, r, sinkVolume),
                                     Null, <<>>, r.value, r.calls)]
                /\ last' = Idle
                /\ calls' = <<>>
           ELSE /\ tasks' = tasks
                /\ last' = FacadeRecord("adjustVolume", getDefaultSink, deltaPercentage,
                                        r, sinkVolume)
                /\ calls' = r.calls
        /\ prev' = Idle
        /\ answers' = <<answer>>
        /\ sinkVolume' = r.volume /\ sinkMuted' = r.muted
        /\ UNCHANGED <<pidCache, procs, statusReport, streamMuted>>

\* the set-volume of the adjustVolume call in slot t settles with setAnswer
AdjustVolumeSetRun(t, setAnswer) ==
    /\ tasks[t].pc = "adjustSet"
    /\ \E r \in {AdjustFromRead(tasks[t].record.sink, tasks[t].record.arg,
                                FacadeOutcome(TRUE, "", tasks[t].cur, tasks[t].issued,
                                              sinkVolume, sinkMuted),
                                IF execWpctl(setAnswer).ok THEN 0 ELSE 2)} :
          /\ last' = FacadeRecord("adjustVolume", tasks[t].record.sink,
                                  tasks[t].record.arg, r, tasks[t].record.volBefore)
          /\ calls' = r.calls
          /\ sinkVolume' = r.volume /\ sinkMuted' = r.muted
    /\ tasks' = [tasks EXCEPT ![t] = IdleCall]
    /\ prev' = Idle
    /\ answers' = <<setAnswer>>
    /\ UNCHANGED <<pidCache, procs, statusReport, streamMuted>>

\* what a run of `wpctl get-volume` can hand back: the exit code, on stdout
\* the report of the sink (with or without the final newline), nothing, or a
\* line without a readable fraction, and on stderr nothing, a warning, an
\* error, or both in either order
GetVolumeAnswers ==
    LET warning == <<"W","a","r","n","i","n","g",":"," ","r","t","k","i","t">>
        failure == <<"E","r","r","o","r",":"," ","n","o"," ","s","i","n","k">>
        report == WpctlGetVolumeOutput(sinkVolume, sinkMuted)
    IN  {Answer(code, stdout, stderr) :
            code \in {0, 1},
            stdout \in {report, report \o <<"\n">>, <<>>, TxtVolumeColon \o <<" ", ".">>,
                        TxtVolumeColon, TxtVolumeColon \o <<" ", "0", ".", "2", "8", "5">>},
            stderr \in {<<>>, <<warning>>, <<failure>>, <<warning, failure>>,
                        <<failure, warning>>}}

\* the facade on the default sink, wpctl answering as it pleases
NextTool ==
    \/ \E answer \in GetVolumeAnswers : tasks[1].pc = "idle" /\ GetVolumeRun(answer)
    \/ \E delta \in {0 - MaxDelta, MaxDelta}, answer \in GetVolumeAnswers :
          AdjustVolumeRun(delta, answer)
    \/ \E setAnswer \in {Answer(0, <<>>, <<>>), Answer(1, <<>>, <<>>)} :
          AdjustVolumeSetRun(1, setAnswer)

SpecTool == InitFacadeAll /\ [][NextTool]_vars

----------------------------------------------------------------------------
(* The event handlers of the three actions. A handler is an async function: *)
(* it runs from one awaited external command to the next without            *)
(* interruption, so an invocation is modelled as a task that takes one step *)
(* per awaited command.                                                     *)

\* a numeric setting that is not configured
Undefined == 0 - 2000000

\* the icons of the titles are named by their code points

TxtNotAvailable == <<"N","/","A">>
TxtErrorColon == <<"E","r","r","o","r",":"," ">>

\* the argument of setTitle: the literal text, followed by the message of
\* the caught error when there is one
Title(text, error) == [text |-> text, error |-> error]

\* `Error: ${error.message}`
ErrorTitle(error) == Title(TxtErrorColon, error)

\* `${volume}%`
PercentText(volume) ==
    (IF volume = NaN THEN TxtNaN ELSE Digits(volume)) \o <<"%">>

\* VolumeDial: isMuted ? `<muted> ${volume}%` : `${volume}%`
DialTitle(volume, isMuted) ==
    Title(IF isMuted THEN <<"U+1F507", " ">> \o PercentText(volume)
          ELSE PercentText(volume), "")

\* VolumeMute: isMuted ? "<muted> MUTED" : `<speaker> ${volume}%`
MuteTitle(volume, isMuted) ==
    Title(IF isMuted THEN <<"U+1F507", " ">> \o <<"M","U","T","E","D">>
          ELSE <<"U+1F50A", " ">> \o PercentText(volume), "")

\* SetVolume: `${volume}%`
PercentTitle(volume) == Title(PercentText(volume), "")

DialHandlers == {"VolumeDial.onWillAppear", "VolumeDial.onDialRotate",
                 "VolumeDial.onDialDown"}
MuteHandlers == {"VolumeMute.onWillAppear", "VolumeMute.onKeyDown"}
Handlers ==
    DialHandlers \cup MuteHandlers \cup {"SetVolume.onWillAppear", "SetVolume.onKeyDown"}

\* the title a handler sets for a PID-based sink
PidTitle(op) ==
    IF op = "SetVolume.onKeyDown" THEN Title(TxtNotAvailable, "")
    ELSE IF op \in MuteHandlers THEN Title(<<"U+1F507", " ">> \o <<"A","p","p">>, "")
    ELSE Title(<<"A","p","p">>, "")

\* an invocation of a handler. op: the handler; pc: the command it awaits
\* ("idle" before the first invocation, "done" after the last setTitle);
\* event: the settings and payload it was called with; mode, name, arg: its
\* controlMode, appSinkId and volumeDelta or targetVolume; cachedPid, pids,
\* sinkId, cur, volume, isMuted: its other local variables; error: the error
\* caught; title: the last title set on the action; issued: the commands
\* whose execution the invocation awaited
Task(op, pc, event, mode, name, arg, cachedPid, pids, sinkId, cur, volume, isMuted, error, title, issued) ==
    [op |-> op, pc |-> pc, event |-> event, mode |-> mode, name |-> name, arg |-> arg,
     cachedPid |-> cachedPid, pids |-> pids, sinkId |-> sinkId, cur |-> cur,
     volume |-> volume, isMuted |-> isMuted, error |-> error, title |-> title,
     issued |-> issued]

\* settings.controlMode, settings.appSinkId, settings.stepSize or
\* settings.targetVolume (number), and the ticks of a rotation
Event(controlMode, appSinkId, number, ticks) ==
    [controlMode |-> controlMode, appSinkId |-> appSinkId, number |-> number,
     ticks |-> ticks]

IdleTask == Task("none", "idle", Event("undefined", "", Undefined, 0), "", "", 0,
                 Null, <<>>, <<>>, 0, 0, FALSE, "", Title(<<>>, ""), <<>>)

\* settings.stepSize ?? 2
StepSize(stepSize) == IF stepSize = Undefined THEN 2 ELSE stepSize

\* settings.targetVolume ?? 50 with 100 in place of 50
TargetVolume_Default100(targetVolume) ==
    IF targetVolume = Undefined THEN 100 ELSE targetVolume

\* settings.targetVolume ?? 50
TargetVolume(targetVolume) == IF targetVolume = Undefined THEN 50 ELSE targetVolume

\* the handler returns: its local variables are gone
Return(task) ==
    [task EXCEPT !.pc = "done", !.cachedPid = Null, !.pids = <<>>, !.cur = 0,
                 !.volume = 0, !.isMuted = FALSE]

\* a handler without catch block: the error leaves the handler
Catch_Rethrow(task, error) ==
    [Return([task EXCEPT !.error = error]) EXCEPT !.pc = "threw"]

\* the catch block of every handler: setTitle(`Error: ${error.message}`)
Catch(task, error) ==
    Return([task EXCEPT !.error = error, !.title = ErrorTitle(error)])

\* setTitle(title) as the last statement of the try block
Show(task, title) == Return([task EXCEPT !.title = title])

\* a handler that goes on with the default sink whatever getSinkId returned
Resolved_DefaultSink(task, sinkId) ==
    LET task1 == [task EXCEPT !.sinkId = getDefaultSink]
    IN  IF task.op = "VolumeDial.onDialRotate"
        THEN [task1 EXCEPT !.pc = "adjustGet"]
        ELSE IF task.op \in {"VolumeDial.onDialDown", "VolumeMute.onKeyDown"}
        THEN [task1 EXCEPT !.pc = "toggleMute"]
        ELSE IF task.op = "SetVolume.onKeyDown"
        THEN [task1 EXCEPT !.pc = "setVolume"]
        ELSE IF task.op = "VolumeMute.onWillAppear"
        THEN [task1 EXCEPT !.pc = "getMuteState"]
        ELSE [task1 EXCEPT !.pc = "getVolume"]

\* the handler from the return of getSinkId to its next awaited command
Resolved(task, sinkId) ==
    LET task1 == [task EXCEPT !.sinkId = sinkId]
    IN  IF task.op = "VolumeDial.onDialRotate"
        THEN [task1 EXCEPT !.pc = IF isPidBased(sinkId) THEN "adjustRelative"
                                  ELSE "adjustGet"]
        ELSE IF task.op \in {"VolumeDial.onDialDown", "VolumeMute.onKeyDown"}
        THEN [task1 EXCEPT !.pc = "toggleMute"]
        ELSE IF isPidBased(sinkId)
        THEN Show(task1, PidTitle(task.op))
        ELSE IF task.op = "SetVolume.onKeyDown"
        THEN [task1 EXCEPT !.pc = "setVolume"]
        ELSE IF task.op = "VolumeMute.onWillAppear"
        THEN [task1 EXCEPT !.pc = "getMuteState"]
        ELSE [task1 EXCEPT !.pc = "getVolume"]

\* a handler that reads the title back from every kind of sink
Mutated_AlwaysRead(task) ==
    IF task.op = "VolumeMute.onKeyDown" THEN [task EXCEPT !.pc = "getMuteState"]
    ELSE [task EXCEPT !.pc = "getVolume"]

\* the handler from the return of adjustVolume, toggleMute or setVolume to
\* its next awaited command
Mutated(task) ==
    IF isPidBased(task.sinkId) THEN Show(task, PidTitle(task.op))
    ELSE IF task.op = "VolumeMute.onKeyDown" THEN [task EXCEPT !.pc = "getMuteState"]
    ELSE [task EXCEPT !.pc = "getVolume"]

\* the handler from the return of getVolume
VolumeRead(task, volume) ==
    IF task.op \in DialHandlers
    THEN [task EXCEPT !.volume = volume, !.pc = "getMuteState"]
    ELSE IF task.op \in MuteHandlers
    THEN Show(task, MuteTitle(volume, task.isMuted))
    ELSE Show(task, PercentTitle(volume))

\* the handler from the return of getMuteState
MuteRead(task, isMuted) ==
    IF task.op \in DialHandlers
    THEN Show(task, DialTitle(task.volume, isMuted))
    ELSE [task EXCEPT !.isMuted = isMuted, !.pc = "getVolume"]

\* the exit code of a wpctl run that fails or succeeds
FailAt(fail) == IF fail THEN 1 ELSE 0

\* the event arrives and the handler runs up to its first awaited command
HandlerStart(t, op, event) ==
    /\ tasks[t].pc \in {"idle", "done"}
    /\ LET mode == IF event.controlMode = "undefined" THEN "system"
                   ELSE event.controlMode
           appSinkId == event.appSinkId
           arg == IF op = "VolumeDial.onDialRotate"
                  THEN event.ticks * StepSize(event.number)
                  ELSE IF op = "SetVolume.onKeyDown" THEN TargetVolume(event.number)
                  ELSE 0
           task == Task(op, "start", event, mode, appSinkId, arg, Null, <<>>, <<>>,
                        0, 0, FALSE, "", tasks[t].title, <<>>)
       IN  /\ tasks' = [tasks EXCEPT ![t] =
                 IF mode = "system" THEN Resolved(task, getDefaultSink)
                 ELSE IF appSinkId = "" THEN Catch(task, "ConfigurationError")
                 ELSE IF pidCache[appSinkId] # Null
                 THEN [task EXCEPT !.pc = "verify", !.cachedPid = pidCache[appSinkId]]
                 ELSE [task EXCEPT !.pc = "pidof"]]
    /\ UNCHANGED <<pidCache, procs, statusReport, sinkVolume, sinkMuted, streamMuted,
                   last, prev, calls, answers>>

\* `wpctl status` of verifyPidInWpctl returns
ResolveVerify(t, fail) ==
    /\ tasks[t].pc = "verify"
    /\ LET task == [tasks[t] EXCEPT !.issued = Append(@, CmdStatus)]
       IN  IF fail
           THEN /\ tasks' = [tasks EXCEPT ![t] = Catch(task, "ToolError")]
                /\ UNCHANGED pidCache
           ELSE IF verifyPidInWpctl(task.cachedPid)
           THEN /\ tasks' = [tasks EXCEPT ![t] =
                                Resolved(task, PidSinkId(task.cachedPid))]
                /\ UNCHANGED pidCache
           ELSE /\ tasks' = [tasks EXCEPT ![t] = [task EXCEPT !.pc = "pidof"]]
                /\ pidCache' = [pidCache EXCEPT ![task.name] = Null]
    /\ UNCHANGED <<procs, statusReport, sinkVolume, sinkMuted, streamMuted,
                   last, prev, calls>>
    /\ answers' = <<Answer(FailAt(fail), <<>>, <<>>)>>

\* `pidof appName` of getApplicationPids returns
ResolvePidof(t, fail) ==
    /\ tasks[t].pc = "pidof"
    /\ LET task == [tasks[t] EXCEPT !.issued = Append(@, CmdPidof(tasks[t].name))]
           pids == getApplicationPids(task.name)
       IN  tasks' = [tasks EXCEPT ![t] =
               IF fail THEN Catch(task, "EnumerationError")
               ELSE IF Len(pids) = 0 THEN Catch(task, "ApplicationNotFound")
               ELSE [task EXCEPT !.pc = "match", !.pids = pids]]
    /\ UNCHANGED <<pidCache, procs, statusReport, sinkVolume, sinkMuted, streamMuted,
                   last, prev, calls>>
    /\ answers' = <<Answer(IF fail THEN 2 ELSE IF procs[tasks[t].name] = <<>> THEN 1 ELSE 0, <<>>, <<>>)>>

\* a resolution that writes the pid it matched under every name
ResolveMatch_WriteAll(t, fail) ==
    /\ tasks[t].pc = "match"
    /\ LET task == [tasks[t] EXCEPT !.issued = Append(@, CmdStatus)]
           matchingPid == findMatchingPidInWpctl(task.pids, statusReport)
       IN  IF fail
           THEN /\ tasks' = [tasks EXCEPT ![t] = Catch(task, "ToolError")]
                /\ UNCHANGED pidCache
           ELSE IF matchingPid = Null
           THEN /\ tasks' = [tasks EXCEPT ![t] = Catch(task, "ApplicationNotPlaying")]
                /\ UNCHANGED pidCache
           ELSE /\ tasks' = [tasks EXCEPT ![t] =
                                Resolved(task, PidSinkId(matchingPid))]
                /\ pidCache' = [a \in AppNames |-> matchingPid]
    /\ UNCHANGED <<procs, statusReport, sinkVolume, sinkMuted, streamMuted,
                   last, prev, calls>>
    /\ answers' = <<Answer(FailAt(fail), <<>>, <<>>)>>

\* `wpctl status` of getApplicationSink returns
ResolveMatch(t, fail) ==
    /\ tasks[t].pc = "match"
    /\ LET task == [tasks[t] EXCEPT !.issued = Append(@, CmdStatus)]
           matchingPid == findMatchingPidInWpctl(task.pids, statusReport)
       IN  IF fail
           THEN /\ tasks' = [tasks EXCEPT ![t] = Catch(task, "ToolError")]
                /\ UNCHANGED pidCache
           ELSE IF matchingPid = Null
           THEN /\ tasks' = [tasks EXCEPT ![t] = Catch(task, "ApplicationNotPlaying")]
                /\ UNCHANGED pidCache
           ELSE /\ tasks' = [tasks EXCEPT ![t] =
                                Resolved(task, PidSinkId(matchingPid))]
                /\ pidCache' = [pidCache EXCEPT ![task.name] = matchingPid]
    /\ UNCHANGED <<procs, statusReport, sinkVolume, sinkMuted, streamMuted,
                   last, prev, calls>>
    /\ answers' = <<Answer(FailAt(fail), <<>>, <<>>)>>

\* a facade call that is awaited again when it threw
Continue_Retry(task, r, next) ==
    IF r.ok THEN next ELSE task

\* the handler from the return of a facade call r: on to the next command
\* when it succeeded, into the catch block when it threw
Continue(task, r, next) ==
    IF r.ok THEN next ELSE Catch(task, r.error)

\* the commands of facade call r appended to those of the invocation
Awaited(task, r) == [task EXCEPT !.issued = @ \o r.calls]

\* adjustVolume on a PID-based sink: the relative set-volume returns
StepAdjustRelative(t, fail) ==
    /\ tasks[t].pc = "adjustRelative"
    /\ \E r \in {adjustVolume(tasks[t].sinkId, tasks[t].arg, FailAt(fail)).r} :
          tasks' = [tasks EXCEPT ![t] =
                       Continue(Awaited(@, r), r, Mutated(Awaited(@, r)))]
    /\ UNCHANGED <<pidCache, procs, statusReport, sinkVolume, sinkMuted, streamMuted,
                   last, prev, calls>>
    /\ answers' = <<Answer(FailAt(fail), <<>>, <<>>)>>

\* adjustVolume on the default sink: its getVolume returns
StepAdjustGet(t, fail) ==
    /\ tasks[t].pc = "adjustGet"
    /\ \E r \in {getVolume(tasks[t].sinkId, FailAt(fail))} :
          tasks' = [tasks EXCEPT ![t] =
                       Continue(Awaited(@, r), r,
                                [Awaited(@, r) EXCEPT !.cur = r.value,
                                                      !.pc = "adjustSet"])]
    /\ UNCHANGED <<pidCache, procs, statusReport, sinkVolume, sinkMuted, streamMuted,
                   last, prev, calls>>
    /\ answers' = <<Answer(FailAt(fail), <<>>, <<>>)>>

\* adjustVolume on the default sink: its setVolume returns
StepAdjustSet(t, fail) ==
    /\ tasks[t].pc = "adjustSet"
    /\ \E r \in {setVolume(tasks[t].sinkId,
                          IF tasks[t].cur = NaN THEN NaN
                          ELSE Max(0, Min(MaxPercent, tasks[t].cur + tasks[t].arg)),
                          FailAt(fail))} :
          /\ tasks' = [tasks EXCEPT ![t] =
                          Continue([Awaited(@, r) EXCEPT !.cur = 0], r,
                                   Mutated([Awaited(@, r) EXCEPT !.cur = 0]))]
          /\ sinkVolume' = r.volume
    /\ UNCHANGED <<pidCache, procs, statusReport, sinkMuted, streamMuted,
                   last, prev, calls>>
    /\ answers' = <<Answer(FailAt(fail), <<>>, <<>>)>>

\* toggleMute returns
StepToggleMute(t, fail) ==
    /\ tasks[t].pc = "toggleMute"
    /\ \E r \in {toggleMute(tasks[t].sinkId, FailAt(fail))} :
          /\ tasks' = [tasks EXCEPT ![t] =
                          Continue(Awaited(@, r), r, Mutated(Awaited(@, r)))]
          /\ sinkMuted' = r.muted
          /\ streamMuted' = WpctlStreamsAfter(streamMuted, r)
    /\ UNCHANGED <<pidCache, procs, statusReport, sinkVolume, last, prev, calls>>
    /\ answers' = <<Answer(FailAt(fail), <<>>, <<>>)>>

\* setVolume(sinkId, targetVolume) of SetVolume.onKeyDown returns
StepSetVolume(t, fail) ==
    /\ tasks[t].pc = "setVolume"
    /\ \E r \in {setVolume(tasks[t].sinkId, tasks[t].arg, FailAt(fail))} :
          /\ tasks' = [tasks EXCEPT ![t] =
                          Continue(Awaited(@, r), r, Mutated(Awaited(@, r)))]
          /\ sinkVolume' = r.volume
    /\ UNCHANGED <<pidCache, procs, statusReport, sinkMuted, streamMuted,
                   last, prev, calls>>
    /\ answers' = <<Answer(FailAt(fail), <<>>, <<>>)>>

\* getVolume for the title returns
StepGetVolume(t, fail) ==
    /\ tasks[t].pc = "getVolume"
    /\ \E r \in {getVolume(tasks[t].sinkId, FailAt(fail))} :
          tasks' = [tasks EXCEPT ![t] =
                       Continue(Awaited(@, r), r, VolumeRead(Awaited(@, r), r.value))]
    /\ UNCHANGED <<pidCache, procs, statusReport, sinkVolume, sinkMuted, streamMuted,
                   last, prev, calls>>
    /\ answers' = <<Answer(FailAt(fail), <<>>, <<>>)>>

\* getMuteState for the title returns
StepGetMuteState(t, fail) ==
    /\ tasks[t].pc = "getMuteState"
    /\ \E r \in {getMuteState(tasks[t].sinkId, FailAt(fail))} :
          tasks' = [tasks EXCEPT ![t] =
                       Continue(Awaited(@, r), r, MuteRead(Awaited(@, r), r.value = 1))]
    /\ UNCHANGED <<pidCache, procs, statusReport, sinkVolume, sinkMuted, streamMuted,
                   last, prev, calls>>
    /\ answers' = <<Answer(FailAt(fail), <<>>, <<>>)>>

\* the settings and event payloads handed to the handlers
\* most dial ticks of one rotation event
MaxTicks == 25

\* the events a handler is called with: a rotation of MaxTicks ticks either
\* way with the default step size, a key press with the default or the
\* highest target volume
Events(op) ==
    {Event(controlMode, appSinkId, number, ticks) :
        controlMode \in {"undefined", "system", "application"},
         appSinkId \in AppNames \cup {""},
        number \in IF op = "SetVolume.onKeyDown" THEN {Undefined, MaxPercent}
                   ELSE {Undefined},
        ticks \in IF op = "VolumeDial.onDialRotate" THEN {0 - MaxTicks, MaxTicks}
                  ELSE {0}}

\* one step of invocation t
TaskStep(t) ==
    \/ \E op \in Handlers : \E event \in Events(op) : HandlerStart(t, op, event)
    \/ \E fail \in BOOLEAN : ResolveVerify(t, fail)
    \/ \E fail \in BOOLEAN : ResolvePidof(t, fail)
    \/ \E fail \in BOOLEAN : ResolveMatch(t, fail)
    \/ \E fail \in BOOLEAN : StepAdjustRelative(t, fail)
    \/ \E fail \in BOOLEAN : StepAdjustGet(t, fail)
    \/ \E fail \in BOOLEAN : StepAdjustSet(t, fail)
    \/ \E fail \in BOOLEAN : StepToggleMute(t, fail)
    \/ \E fail \in BOOLEAN : StepSetVolume(t, fail)
    \/ \E fail \in BOOLEAN : StepGetVolume(t, fail)
    \/ \E fail \in BOOLEAN : StepGetMuteState(t, fail)

\* one invocation at a time, any handler, wpctl and pidof answering or failing
InitHandlers ==
    /\ pidCache = EmptyCache
    /\ procs \in {[a \in AppNames |-> IF a = "vlc" THEN v ELSE <<>>] :
                    v \in {<<>>, <<48>>, <<4821, 48>>}}
    /\ statusReport \in {<<>>, <<LineClients, LineEntry(48)>>}
    /\ sinkVolume = 50
    /\ sinkMuted \in BOOLEAN
    /\ streamMuted = [p \in Pids |-> FALSE]
    /\ tasks = <<IdleTask>>
    /\ last = Idle
    /\ prev = Idle
    /\ calls = <<>>
    /\ answers = <<>>

NextHandlers == \E t \in DOMAIN tasks : TaskStep(t)

SpecHandlers == InitHandlers /\ [][NextHandlers]_vars

\* the invocations that await an external command
Awaiting == {t \in DOMAIN tasks : tasks[t].pc \notin {"idle", "done", "threw"}}

\* the command that an invocation awaits returns, with a result or with an
\* error
CommandReturns == \E t \in Awaiting : TaskStep(t)

\* every command an invocation awaits returns at last: weak fairness of
\* CommandReturns. A command awaited can always return, so that the action is
\* enabled exactly while an invocation awaits, and WF_vars(CommandReturns) is
\* written with Awaiting # {} for ENABLED <<CommandReturns>>_vars
SpecHandlersFair ==
    SpecHandlers /\ ([]<>(Awaiting = {}) \/ []<><<CommandReturns>>_vars)

\* two rotations of a dial that controls vlc, events arriving while an
\* earlier handler still awaits a command; pidof and wpctl answer
ConcurrentStep(t) ==
    \/ HandlerStart(t, "VolumeDial.onDialRotate",
                    Event("application", "vlc", Undefined, MaxTicks))
    \/ ResolveVerify(t, FALSE)
    \/ ResolvePidof(t, FALSE)
    \/ ResolveMatch(t, FALSE)
    \/ StepAdjustRelative(t, FALSE)

\* vlc runs as process 48 and plays audio
InitConcurrent ==
    /\ pidCache = EmptyCache
    /\ procs = [a \in AppNames |-> IF a = "vlc" THEN <<48>> ELSE <<>>]
    /\ statusReport = <<LineClients, LineEntry(48)>>
    /\ sinkVolume = 50
    /\ sinkMuted = FALSE
    /\ streamMuted = [p \in Pids |-> FALSE]
    /\ tasks = <<IdleTask, IdleTask>>
    /\ last = Idle
    /\ prev = Idle
    /\ calls = <<>>
    /\ answers = <<>>

\* the handlers, and vlc starting and ending processes and audio streams
NextConcurrent ==
    \/ \E t \in DOMAIN tasks : ConcurrentStep(t)
    \/ \E pid \in Pids : ProcessStart("vlc", pid)
    \/ \E i \in 1..MaxProcs : ProcessExit("vlc", i)
    \/ \E pid \in Pids : StatusAppend(LineEntry(pid))
    \/ \E i \in 2..MaxLines : StatusDrop(i)

SpecConcurrent == InitConcurrent /\ [][NextConcurrent]_vars

\* two rotations of a dial that controls the default sink, the second event
\* arriving while the handler of the first awaits a command; wpctl answers
InitOverlap == InitConcurrent /\ sinkVolume = 50

\* each handler is invoked once, by a rotation of one tick or of MaxTicks
\* ticks either way
NextOverlap ==
    \E t \in DOMAIN tasks :
        \/ /\ tasks[t].pc = "idle"
           /\ \E ticks \in {0 - MaxTicks, 0 - 1, 1, MaxTicks} :
                 HandlerStart(t, "VolumeDial.onDialRotate",
                              Event("system", "", Undefined, ticks))
        \/ StepAdjustGet(t, FALSE)
        \/ StepAdjustSet(t, FALSE)
        \/ StepGetVolume(t, FALSE)
        \/ StepGetMuteState(t, FALSE)

SpecOverlap == InitOverlap /\ [][NextOverlap]_vars

----------------------------------------------------------------------------
(* Vocabulary of the properties *)

IsSectionHeader(line) ==
    Includes(line, TxtClientsColon) \/ Includes(line, TxtSinkInputsColon)

\* a top-level header: a line that starts, without indentation, with a
\* capital letter
IsTopLevelHeader(line) == Len(line) > 0 /\ line[1] \in Upper

\* pid occurs as a whole word on an entry line of the Clients or the Sink
\* Inputs section: after such a section header, with no top-level header
\* in between
AppearsInTrackedSection(pid, report) ==
    \E h \in 1..Len(report), i \in 1..Len(report) :
        /\ h < i
        /\ IsSectionHeader(report[h])
        /\ ~IsSectionHeader(report[i])
        /\ WordMatch(report[i], Digits(pid))
        /\ \A j \in (h + 1)..i : ~IsTopLevelHeader(report[j])

\* the last completed operation was resolve(application, name) for a
\* configured name; statusReport and procs are then as they were when the
\* last command of the call returned
ResolvedApplication ==
    /\ last.op = "getSinkId"
    /\ last.mode = "application"
    /\ last.name \in AppNames

\* the entry the cache held for the resolved name when the call started
CachedBefore == last.cacheBefore[last.name]

\* no external command of the last operation failed
ToolsAnswered == last.error \notin {"ToolError", "EnumerationError"}

\* in this step the command pc that call t awaited returns; statusReport and
\* procs are what the command reads
Answered(t, pc) == tasks[t].pc = pc /\ tasks'[t] # tasks[t]

\* call t has ended in this step and its record is kept
Ended(t) ==
    /\ tasks'[t].pc = "idle"
    /\ last'.op = "getSinkId"
    /\ last'.name = tasks[t].record.name
    /\ last'.cacheBefore = tasks[t].record.cacheBefore

Clamp(n) == Max(0, Min(MaxPercent, n))

----------------------------------------------------------------------------
(* Properties of the resolver, checked under SpecResolver *)

\* the case of C1: the name had a cached pid, and the call went on past the
\* status query of its validation, which by C1_StaleEntryEvicted it does
\* exactly when the report lists the pid in no tracked section
StaleEntryCase ==
    /\ ResolvedApplication
    /\ CachedBefore # Null
    /\ Len(calls) >= 2

\* C1 as stated: with a stale cache entry, resolve removes the entry and then
\* always runs a process enumeration followed by a status match, and never
\* returns the stale pid.
C1_Original ==
    (StaleEntryCase /\ ToolsAnswered) =>
        /\ pidCache[last.name] # CachedBefore
        /\ calls = <<CmdStatus, CmdPidof(last.name), CmdStatus>>
        /\ last.handle # PidSinkId(CachedBefore)

\* C1 as amended: when the status query of the validation returns a report
\* that lists the cached pid in no tracked section, resolve removes the
\* entry at once and goes on to a process enumeration; the fresh status
\* query and match follow exactly when the enumeration returned at least one
\* pid (with no pid the call ends with application-not-found after the
\* enumeration); a call that fails leaves no entry, and a call that succeeds
\* returns and caches a pid that the fresh status report lists in a tracked
\* section, which is the evicted pid itself when it plays again by then.
C1_StaleEntryEvicted ==
    /\ [][\A t \in DOMAIN tasks :
             (/\ Answered(t, "verify")
              /\ answers'[1].code = 0
              /\ ~AppearsInTrackedSection(tasks[t].cachedPid, statusReport)) =>
                 /\ pidCache'[tasks[t].record.name] = Null
                 /\ tasks'[t].pc = "pidof"
                 /\ tasks'[t].issued = <<CmdStatus>>
        ]_vars
    /\ [][\A t \in DOMAIN tasks :
             Answered(t, "pidof") =>
                 /\ tasks'[t].pc = "match" <=>
                        (answers'[1].code = 0 /\ procs[tasks[t].record.name] # <<>>)
                 /\ tasks'[t].pc # "match" =>
                        /\ Ended(t)
                        /\ ~last'.ok
                        /\ calls'[Len(calls')] = CmdPidof(tasks[t].record.name)
                        /\ (answers'[1].code = 1 => last'.error = "ApplicationNotFound")
        ]_vars
    /\ [](StaleEntryCase =>
             /\ calls[1] = CmdStatus
             /\ calls[2] = CmdPidof(last.name)
             /\ (Len(calls) = 3 => calls[3] = CmdStatus)
             /\ (~last.ok => pidCache[last.name] = Null)
             /\ (last.ok =>
                    /\ Len(calls) = 3
                    /\ last.handle = PidSinkId(pidCache[last.name])
                    /\ AppearsInTrackedSection(pidCache[last.name], statusReport)))

\* a stale entry was evicted and the fresh cycle, the pid playing again by
\* then, returned the evicted pid after three commands
C1_Witness ==
    /\ StaleEntryCase
    /\ last.ok
    /\ Len(calls) = 3
    /\ last.handle = PidSinkId(CachedBefore)

\* C2: when a call for a name without cache entry receives from pidof the
\* answer that no process has that name, resolve fails with
\* application-not-found, has issued no status query and leaves the cache
\* without an entry for the name.
C2_NotFoundWritesNothing ==
    [][\A t \in DOMAIN tasks :
          (/\ Answered(t, "pidof")
           /\ tasks[t].cachedPid = Null
           /\ procs[tasks[t].record.name] = <<>>
           /\ answers'[1].code = 1) =>
              /\ Ended(t)
              /\ ~last'.ok
              /\ last'.error = "ApplicationNotFound"
              /\ calls' = <<CmdPidof(tasks[t].record.name)>>
              /\ pidCache'[tasks[t].record.name] = Null
      ]_vars

C2_Witness ==
    /\ ResolvedApplication
    /\ CachedBefore = Null
    /\ procs[last.name] = <<>>
    /\ calls = <<CmdPidof(last.name)>>
    /\ last.error = "ApplicationNotFound"

\* C3 as stated: for a name whose enumeration returns at least one pid, none
\* of which appears in the Clients or Sink Inputs section, resolve fails with
\* application-not-playing and the cache holds no entry for the name. Stated
\* for the calls of one command, whose process table and status report are
\* those of that command.
C3_Original ==
    (/\ ResolvedApplication
     /\ Len(calls) = 1
     /\ procs[last.name] # <<>>
     /\ \A p \in Range(procs[last.name]) : ~AppearsInTrackedSection(p, statusReport)
     /\ ToolsAnswered) =>
        /\ ~last.ok
        /\ last.error = "ApplicationNotPlaying"
        /\ pidCache[last.name] = Null

\* C4: when the status query of the validation returns a report that lists
\* the cached pid in a tracked section, resolve returns the handle of that
\* pid after exactly one external command, the status query, without process
\* enumeration and with the cache unchanged.
C4_ValidCachedPidReturned ==
    [][\A t \in DOMAIN tasks :
          (/\ Answered(t, "verify")
           /\ answers'[1].code = 0
           /\ AppearsInTrackedSection(tasks[t].cachedPid, statusReport)) =>
              /\ Ended(t)
              /\ last'.ok
              /\ last'.handle = PidSinkId(tasks[t].cachedPid)
              /\ calls' = <<CmdStatus>>
              /\ pidCache' = pidCache
              /\ pidCache' = last'.cacheBefore
      ]_vars

\* a cached pid was re-validated and returned while pidof would not list it
C4_Witness ==
    /\ ResolvedApplication
    /\ CachedBefore # Null
    /\ AppearsInTrackedSection(CachedBefore, statusReport)
    /\ CachedBefore \notin Range(procs[last.name])
    /\ last.ok
    /\ calls = <<CmdStatus>>

\* C5: after a successful resolve(application, name) the cache maps name to
\* the pid of the returned handle, and that pid appears in a tracked section
\* of the status report that the last command of the call read.
C5_CacheHoldsReturnedPid ==
    (ResolvedApplication /\ last.ok) =>
        /\ pidCache[last.name] \in Pids
        /\ last.handle = PidSinkId(pidCache[last.name])
        /\ extractPid(last.handle) = pidCache[last.name]
        /\ calls[Len(calls)] = CmdStatus
        /\ answers = <<Answer(0, statusReport, <<>>)>>
        /\ AppearsInTrackedSection(pidCache[last.name], statusReport)

\* a successful resolve replaced a different cached pid
C5_Witness ==
    /\ ResolvedApplication
    /\ last.ok
    /\ CachedBefore # Null
    /\ CachedBefore # pidCache[last.name]

\* C6: resolve in system mode returns the default sink, issues no process
\* enumeration and no status query, and leaves the cache as it was, whatever
\* the cache holds and whatever name is configured.
C6_SystemModeNoLookup ==
    (last.op = "getSinkId" /\ last.mode = "system") =>
        /\ last.ok
        /\ last.handle = TxtDefaultSink
        /\ calls = <<>>
        /\ pidCache = last.cacheBefore

\* system mode was resolved with a configured name that has a cache entry
C6_Witness ==
    /\ last.op = "getSinkId"
    /\ last.mode = "system"
    /\ last.name \in AppNames
    /\ last.cacheBefore[last.name] # Null
    /\ last.handle = TxtDefaultSink

\* C15: resolve in application mode with an absent or empty application name
\* fails with the configuration error, issues no external command (neither
\* enumeration nor status query) and leaves the cache unchanged.
C15_EmptyNameConfigurationError ==
    (last.op = "getSinkId" /\ last.mode = "application" /\ last.name = "") =>
        /\ ~last.ok
        /\ last.error = "ConfigurationError"
        /\ last.handle = <<>>
        /\ calls = <<>>
        /\ pidCache = last.cacheBefore

\* application mode was resolved without a name while the cache held entries
C15_Witness ==
    /\ last.op = "getSinkId" /\ last.mode = "application" /\ last.name = ""
    /\ last.error = "ConfigurationError"
    /\ \A a \in AppNames : pidCache[a] # Null

\* C17: the life of a cache entry. Every step that changes the entry of a
\* name is the return of a status query to a resolution of that name in
\* application mode. An entry appears only when the status query of the
\* match returns, the resolution succeeds and returns the pid it confirmed
\* in that report. An entry disappears only when the status query of its
\* validation was answered with a report that does not list the cached pid;
\* an entry is replaced by that removal followed by a match of the same
\* resolution. Steps of the environment (time passing, processes and
\* streams coming and going), the start of a call, the enumeration and
\* resolutions of other targets change no entry.
C17_CacheLifecycle ==
    [][\A a \in AppNames :
          pidCache'[a] # pidCache[a] =>
              \E t \in DOMAIN tasks :
                  /\ tasks[t].record.op = "getSinkId"
                  /\ tasks[t].record.mode = "application"
                  /\ tasks[t].record.name = a
                  /\ \/ /\ Answered(t, "match")
                        /\ pidCache[a] = Null
                        /\ pidCache'[a] # Null
                        /\ Ended(t)
                        /\ last'.ok
                        /\ last'.handle = PidSinkId(pidCache'[a])
                        /\ AppearsInTrackedSection(pidCache'[a], statusReport)
                     \/ /\ Answered(t, "verify")
                        /\ pidCache[a] = tasks[t].cachedPid
                        /\ pidCache'[a] = Null
                        /\ answers'[1].code = 0
                        /\ ~AppearsInTrackedSection(pidCache[a], statusReport)
                        /\ tasks'[t].pc = "pidof"
      ]_vars

\* an entry was removed by a resolution whose validation failed and whose
\* fresh cycle found no playing process, the entry of the other name staying
C17_Witness ==
    /\ ResolvedApplication
    /\ CachedBefore # Null
    /\ pidCache[last.name] = Null
    /\ last.error = "ApplicationNotPlaying"
    /\ \E b \in AppNames \ {last.name} :
          pidCache[b] # Null /\ pidCache[b] = last.cacheBefore[b]

\* C22: the enumeration tells "not found" from a tool failure. When pidof
\* exits with code 1, resolve fails with application-not-found; when pidof
\* fails in any other way, resolve fails with the enumeration error, which
\* is a different one; in both cases the enumeration is the last command of
\* the call (no status match follows it), the name is left without cache
\* entry and the entries of the other names stay as they were. When pidof
\* exits with code 0 and lists a pid, neither error is raised: the call goes
\* on to the status match.
C22_EnumerationOutcomes ==
    [][\A t \in DOMAIN tasks :
          Answered(t, "pidof") =>
              /\ answers'[1].code = 1 =>
                     /\ ~last'.ok
                     /\ last'.error = "ApplicationNotFound"
              /\ answers'[1].code \notin {0, 1} =>
                     /\ ~last'.ok
                     /\ last'.error = "EnumerationError"
              /\ answers'[1].code # 0 =>
                     /\ Ended(t)
                     /\ calls' = Append(tasks[t].issued, CmdPidof(tasks[t].record.name))
                     /\ pidCache'[tasks[t].record.name] = Null
                     /\ \A b \in AppNames \ {tasks[t].record.name} :
                            /\ pidCache'[b] = pidCache[b]
                            /\ pidCache'[b] = last'.cacheBefore[b]
              /\ (answers'[1].code = 0 /\ answers'[1].stdout # <<>>) =>
                     /\ tasks'[t].pc = "match"
                     /\ last' = Idle
      ]_vars

\* pidof failed, after a stale entry had been evicted, while the program ran
C22_Witness ==
    /\ ResolvedApplication
    /\ CachedBefore # Null
    /\ procs[last.name] # <<>>
    /\ calls = <<CmdStatus, CmdPidof(last.name)>>
    /\ answers[1].code = 2
    /\ last.error = "EnumerationError"
    /\ pidCache[last.name] = Null

\* C28 as stated: resolve(application, name) returns a process handle for
\* a pid only if, at the time of the call, the pid belongs to a running
\* process of that program name; a cached pid that the status report still
\* lists but that belongs to no process of the name any more is not
\* returned. Stated for the calls that return the cached pid after their one
\* command.
C28_Original ==
    (ResolvedApplication /\ last.ok /\ calls = <<CmdStatus>>) =>
        extractPid(last.handle) \in Range(procs[last.name])

\* C34: a resolution that finds a cached pid starts with the status query
\* of the validation; when that query fails, the resolution fails with the
\* tool error after this one command and the cache is as it was; the entry
\* is removed only when that query succeeded with a report that lists the
\* cached pid in no tracked section.
C34_FailedValidationKeepsEntry ==
    /\ []((ResolvedApplication /\ CachedBefore # Null) =>
             (Len(calls) >= 1 /\ calls[1] = CmdStatus))
    /\ [][\A t \in DOMAIN tasks :
             Answered(t, "verify") =>
                 /\ tasks[t].issued = <<>>
                 /\ tasks[t].cachedPid = pidCache[tasks[t].record.name]
                 /\ answers'[1].code # 0 =>
                        /\ Ended(t)
                        /\ ~last'.ok
                        /\ last'.error = "ToolError"
                        /\ calls' = <<CmdStatus>>
                        /\ pidCache' = pidCache
                        /\ pidCache' = last'.cacheBefore
                 /\ pidCache' # pidCache =>
                        /\ answers'[1].code = 0
                        /\ answers'[1].stdout = statusReport
                        /\ ~AppearsInTrackedSection(tasks[t].cachedPid, statusReport)
        ]_vars

\* the status query of the validation of the cached pid 48 failed: the
\* resolution failed with the tool error and vlc is still cached as 48
C34_Witness ==
    /\ ResolvedApplication
    /\ last.name = "vlc"
    /\ CachedBefore = 48
    /\ calls = <<CmdStatus>>
    /\ answers[1].code # 0
    /\ last.error = "ToolError"
    /\ pidCache["vlc"] = 48

----------------------------------------------------------------------------
(* Properties of the facade on process sinks, checked under SpecProcessSink *)

\* C7: getVolume, setVolume and getMuteState on a process handle fail with
\* the unsupported-operation error for every input, before any external
\* command is issued.
C7_ProcessSinkUnsupported ==
    (last.op \in {"getVolume", "setVolume", "getMuteState"} /\ last.sink \in PidSinks) =>
        /\ ~last.ok
        /\ last.error = "UnsupportedOperation"
        /\ calls = <<>>

\* setVolume, then getVolume were called with a process handle
C7_Witness ==
    /\ prev.op = "setVolume" /\ prev.sink \in PidSinks /\ prev.arg = 50
    /\ last.op = "getVolume" /\ last.sink \in PidSinks
    /\ last.error = "UnsupportedOperation"

\* C8 as stated: adjustVolume on a process handle with delta d, 1 <= |d| <=
\* 100, issues exactly one relative set-volume command for the handle's pid
\* whose magnitude is |d| / 100 and whose sign is that of d.
C8_Original ==
    (/\ last.op = "adjustVolume"
     /\ last.sink \in PidSinks
     /\ Abs(last.arg) \in 1..100
     /\ last.ok) =>
        /\ Len(calls) = 1
        /\ calls[1].tool = "wpctl"
        /\ calls[1].sub = "set-volume"
        /\ calls[1].target = TxtPidFlag \o Digits(extractPid(last.sink))
        /\ WpctlRelativeMagnitude(calls[1].value).den # 0
        /\ 100 * WpctlRelativeMagnitude(calls[1].value).num
              = Abs(last.arg) * WpctlRelativeMagnitude(calls[1].value).den
        /\ WpctlRelativeSign(calls[1].value) = (IF last.arg >= 0 THEN "+" ELSE "-")

----------------------------------------------------------------------------
(* Properties of the facade on the default sink, checked under             *)
(* SpecDefaultSink                                                         *)

\* C9: on the default sink at c percent, 0 <= c <= 100, when the call reads
\* it, adjustVolume by d followed by getVolume returns clamp(c + d, 0, 100),
\* never more than 100 and never less than 0.
C9_AdjustReadBackClamped ==
    (/\ prev.op = "adjustVolume" /\ prev.sink = TxtDefaultSink /\ prev.ok
     /\ prev.volBefore \in 0..MaxPercent
     /\ last.op = "getVolume" /\ last.sink = TxtDefaultSink /\ last.ok) =>
        /\ last.value = Clamp(prev.volBefore + prev.arg)
        /\ last.value \in 0..MaxPercent

\* +10 from 95 was read back as 100
C9_Witness ==
    /\ prev.op = "adjustVolume" /\ prev.ok
    /\ prev.volBefore = 95 /\ prev.arg = 10
    /\ last.op = "getVolume" /\ last.ok
    /\ last.value = 100

\* C16: getVolume on the default sink returns min(100, round(fraction * 100))
\* for the fraction wpctl reports: a fraction above 1.00, up to 1.65, gives
\* exactly 100 and is not rejected, and every returned value lies in 0..100.
C16_ReadClampedToCeiling ==
    (last.op = "getVolume" /\ last.sink = TxtDefaultSink) =>
        /\ last.ok
        /\ last.value = Min(MaxPercent, sinkVolume)
        /\ last.value \in 0..MaxPercent
        /\ (sinkVolume > MaxPercent => last.value = MaxPercent)

\* the sink stood at 1.65 and getVolume returned 100
C16_Witness ==
    /\ last.op = "getVolume" /\ last.sink = TxtDefaultSink /\ last.ok
    /\ sinkVolume = MaxToolVolume
    /\ calls = <<CmdGetVolume(TxtDefaultSink)>>
    /\ last.value = MaxPercent

\* C10: on the default sink, setVolume(p) for an integer p in 0..100
\* followed by getVolume returns p.
C10_SetGetRoundTrip ==
    (/\ prev.op = "setVolume" /\ prev.sink = TxtDefaultSink /\ prev.ok
     /\ prev.arg \in 0..MaxPercent
     /\ last.op = "getVolume" /\ last.sink = TxtDefaultSink /\ last.ok) =>
        last.value = prev.arg

\* setVolume(42) was read back as 42 from a sink that was not at 42 before
C10_Witness ==
    /\ prev.op = "setVolume" /\ prev.ok /\ prev.arg = 42
    /\ calls = <<CmdGetVolume(TxtDefaultSink)>>
    /\ last.op = "getVolume" /\ last.ok /\ last.value = 42

\* C30 as stated: adjustVolume on the default sink with a non-negative delta
\* never lowers the sink's actual volume, also when the actual volume is
\* above 100% (over-amplified, up to 165%) before the call.
C30_Original ==
    (/\ last.op = "adjustVolume" /\ last.sink = TxtDefaultSink /\ last.ok
     /\ last.arg >= 0) =>
        sinkVolume >= last.volBefore

\* C30, amended: adjustVolume on the default sink with a non-negative delta d
\* sets the actual volume to min(100, min(100, v) + d) for the actual volume
\* v that the call reads, whatever the mixer did to the sink between the
\* read and the write: the result is never below v when v is at or below
\* 100%, and is exactly 100% when v is above 100% (over-amplified, up to
\* 165%).
C30_NonNegativeAdjustCeiling ==
    (/\ last.op = "adjustVolume" /\ last.sink = TxtDefaultSink /\ last.ok
     /\ last.arg >= 0) =>
        /\ sinkVolume = Min(MaxPercent, Min(MaxPercent, last.volBefore) + last.arg)
        /\ sinkVolume <= MaxPercent
        /\ (last.volBefore <= MaxPercent => sinkVolume >= last.volBefore)
        /\ (last.volBefore > MaxPercent => sinkVolume = MaxPercent)

\* the sink stood at 150% and +5 left it at 100%
C30_Witness ==
    /\ last.op = "adjustVolume" /\ last.sink = TxtDefaultSink /\ last.ok
    /\ last.volBefore = 150 /\ last.arg = 5
    /\ calls = <<CmdGetVolume(TxtDefaultSink),
                 CmdSetVolume(TxtDefaultSink, <<"1", ".", "0", "0">>)>>
    /\ sinkVolume = 100

----------------------------------------------------------------------------
(* Properties of muting, checked under SpecMute *)

\* the one command a toggleMute on sinkId issues
MuteCommandFor(sinkId) ==
    IF sinkId \in PidSinks
    THEN Cmd("wpctl", "set-mute", TxtPidFlag \o Digits(extractPid(sinkId)), TxtToggle)
    ELSE Cmd("wpctl", "set-mute", TxtDefaultSink, TxtToggle)

\* C11: toggleMute invoked twice on the same handle, both tool calls
\* succeeding and nothing else writing in between, leaves the mute flag of the
\* target as it was before the first call; each invocation issues exactly one
\* mute-toggle command, scoped to the pid for a process handle and to the
\* default-sink token for the default sink.
C11_TogglePairRestores ==
    /\ (last.op = "toggleMute" /\ last.error \in {"", "ToolError"}) =>
           calls = <<MuteCommandFor(last.sink)>>
    /\ (last.op = "toggleMute" /\ last.ok) =>
           TargetMuted(last.sink) = ~last.mutedBefore
    /\ (/\ prev.op = "toggleMute" /\ prev.ok
        /\ last.op = "toggleMute" /\ last.ok
        /\ last.sink = prev.sink) =>
           /\ last.mutedBefore = ~prev.mutedBefore
           /\ TargetMuted(last.sink) = prev.mutedBefore

\* a muted process stream was toggled twice and is muted again
C11_Witness ==
    /\ prev.op = "toggleMute" /\ prev.ok /\ prev.sink \in PidSinks
    /\ prev.mutedBefore
    /\ last.op = "toggleMute" /\ last.ok /\ last.sink = prev.sink
    /\ calls = <<MuteCommandFor(last.sink)>>
    /\ TargetMuted(last.sink)

----------------------------------------------------------------------------
(* Properties of the status matcher, checked under SpecMatch *)

\* the candidates of the last status match
Candidates == Range(procs[last.name])

\* pid occurs on line i of the report, as a token or inside a longer number
OccursOnLine(pid, report, i) == Includes(report[i], Digits(pid))

\* line i comes before the first Clients or Sink Inputs header
BeforeFirstHeader(report, i) == \A h \in 1..i : ~IsSectionHeader(report[h])

\* a top-level header between the last section header before line i and line i
\* has closed the section
AfterClosingHeader(report, i) ==
    \E t \in 1..(i - 1) :
        /\ IsTopLevelHeader(report[t])
        /\ \A h \in t..i : ~IsSectionHeader(report[h])

\* the scan takes the line for a header that ends section tracking
EndsTracking(line) ==
    /\ ~IsSectionHeader(line)
    /\ HeaderLike(line)
    /\ ~Includes(line, TxtClients)
    /\ ~Includes(line, TxtSinkInputs)

\* line i is scanned for pids while a Clients or Sink Inputs section is
\* active: it follows a section header, tracking has not ended in between,
\* and the line is neither a section header nor the end of tracking
ScannedWhileActive(report, i) ==
    /\ ~IsSectionHeader(report[i])
    /\ \E h \in 1..(i - 1) :
          /\ IsSectionHeader(report[h])
          /\ \A j \in (h + 1)..i : ~EndsTracking(report[j])

ConfirmedBy(pid, report) ==
    \E i \in 1..Len(report) :
        ScannedWhileActive(report, i) /\ WordMatch(report[i], Digits(pid))

\* C12: the status match confirms a candidate pid if and only if the pid
\* occurs as a whole-word token on a line scanned while a Clients or Sink
\* Inputs section is active; a pid that occurs only before the first section
\* header or only after a top-level header has closed the section is not
\* confirmed, and a pid that occurs only inside a longer number is not
\* confirmed.
C12_MatchIffInActiveSection ==
    last.op = "findMatchingPidInWpctl" =>
        /\ (last.value # Null) <=>
               (\E p \in Candidates : ConfirmedBy(p, statusReport))
        /\ (last.value # Null) =>
               /\ last.value \in Candidates
               /\ ConfirmedBy(last.value, statusReport)
        /\ (Cardinality(Candidates) = 1) =>
               \A p \in Candidates :
                   (last.value = p) <=> ConfirmedBy(p, statusReport)
        /\ \A p \in Candidates :
               (\A i \in 1..Len(statusReport) :
                   OccursOnLine(p, statusReport, i) =>
                       \/ BeforeFirstHeader(statusReport, i)
                       \/ AfterClosingHeader(statusReport, i)
                       \/ ~WordMatch(statusReport[i], Digits(p)))
               => last.value # p

\* 48 is the only candidate; it stands before the Clients header and, inside
\* the section, only as a part of 4821: no match
C12_Witness ==
    /\ last.op = "findMatchingPidInWpctl"
    /\ procs[last.name] = <<48>>
    /\ statusReport = <<LineEntry(48), LineClients, LineEntry(4821)>>
    /\ last.value = Null

\* the place of pid in the enumeration of the last status match
EnumerationIndex(pid) ==
    CHOOSE k \in 1..Len(procs[last.name]) : procs[last.name][k] = pid

\* C24: with several candidates the first textual match wins. The pid
\* returned occurs on the earliest line, among the lines scanned while a
\* section is active, on which any candidate occurs as a whole word; when
\* several candidates occur on that line, it is the one enumerated first;
\* the order of enumeration does not decide between candidates on
\* different lines.
C24_FirstTextualMatch ==
    (last.op = "findMatchingPidInWpctl" /\ last.value # Null) =>
        \E i \in 1..Len(statusReport) :
            /\ ScannedWhileActive(statusReport, i)
            /\ WordMatch(statusReport[i], Digits(last.value))
            /\ \A j \in 1..(i - 1), p \in Candidates :
                   ScannedWhileActive(statusReport, j) =>
                       ~WordMatch(statusReport[j], Digits(p))
            /\ \A p \in Candidates :
                   WordMatch(statusReport[i], Digits(p)) =>
                       EnumerationIndex(last.value) <= EnumerationIndex(p)

\* 4821 was enumerated before 48, 48 stands on the earlier line: 48 wins
C24_Witness ==
    /\ last.op = "findMatchingPidInWpctl"
    /\ procs[last.name] = <<4821, 48>>
    /\ statusReport = <<LineClients, LineEntry(48), LineEntry(4821)>>
    /\ last.value = 48

\* C25 as stated: inside an active Clients or Sink Inputs section every
\* entry line is scanned until the next top-level header (a line that
\* starts, without indentation, with a capital letter): a candidate that
\* occurs as a whole word on a line after a section header, with no
\* top-level header in between, is found, whatever the first non-blank
\* character of that line and whatever else the line contains.
C25_Original ==
    last.op = "findMatchingPidInWpctl" =>
        \A p \in Candidates :
            (\E h \in 1..Len(statusReport), i \in 1..Len(statusReport) :
                /\ h < i
                /\ IsSectionHeader(statusReport[h])
                /\ ~IsTopLevelHeader(statusReport[i])
                /\ WordMatch(statusReport[i], Digits(p))
                /\ \A j \in (h + 1)..i : ~IsTopLevelHeader(statusReport[j]))
            => last.value # Null

----------------------------------------------------------------------------
(* Properties of the facade on both kinds of sink, checked under SpecFacade *)

FacadeOps == {"getVolume", "setVolume", "getMuteState", "toggleMute", "adjustVolume"}

\* C20 as stated: every facade operation, on either kind of handle, forms
\* exactly one invocation of the external tool.
C20_Original ==
    last.op \in FacadeOps => Len(calls) = 1

\* C20 as amended: a facade operation issues at most one command, with two
\* exceptions. getVolume, setVolume and getMuteState on a process handle
\* issue none. adjustVolume on the default sink is a sequence of two
\* commands, get-volume and then set-volume on the default sink, the second
\* being issued only when the first was answered. toggleMute on either handle,
\* adjustVolume on a process handle and getVolume, setVolume, getMuteState on
\* the default sink issue exactly one.
C20_CommandsPerOperation ==
    last.op \in FacadeOps =>
        /\ (last.sink \in PidSinks /\ last.op \in {"getVolume", "setVolume", "getMuteState"})
              => calls = <<>>
        /\ (last.sink \in PidSinks /\ last.op \in {"toggleMute", "adjustVolume"})
              => Len(calls) = 1
        /\ (last.sink = TxtDefaultSink /\ last.op # "adjustVolume")
              => Len(calls) = 1
        /\ (last.sink = TxtDefaultSink /\ last.op = "adjustVolume") =>
              /\ Len(calls) \in 1..2
              /\ calls[1] = CmdGetVolume(TxtDefaultSink)
              /\ (Len(calls) = 1 => ~last.ok)
              /\ (Len(calls) = 2 =>
                     /\ calls[2].sub = "set-volume"
                     /\ calls[2].target = TxtDefaultSink)
              /\ (last.ok => Len(calls) = 2)

\* adjustVolume on the default sink succeeded with two commands
C20_Witness ==
    /\ last.op = "adjustVolume" /\ last.sink = TxtDefaultSink /\ last.ok
    /\ last.arg = MaxDelta /\ last.volBefore = 42
    /\ calls = <<CmdGetVolume(TxtDefaultSink),
                 CmdSetVolume(TxtDefaultSink, <<"0", ".", "5", "2">>)>>

\* the digits of pid stand on the line as a process id: right after "pid:"
\* or "pid " and not followed by another digit
OccursAsProcessId(line, pid) ==
    \E i \in 1..Len(line) :
        /\ i + 3 + Len(Digits(pid)) <= Len(line)
        /\ SubSeq(line, i, i + 3) \in {<<"p","i","d",":">>, <<"p","i","d"," ">>}
        /\ SubSeq(line, i + 4, i + 3 + Len(Digits(pid))) = Digits(pid)
        /\ \/ i + 4 + Len(Digits(pid)) > Len(line)
           \/ line[i + 4 + Len(Digits(pid))] \notin DigitChars

\* C35 as stated: the status match confirms a candidate pid only when the
\* matching token on the line is a process id: a line on which the digits of
\* the candidate occur only as another numeric token, such as the object id
\* "48.", does not confirm the candidate.
C35_Original ==
    (last.op = "findMatchingPidInWpctl" /\ last.value # Null) =>
        \E i \in 1..Len(statusReport) :
            OccursAsProcessId(statusReport[i], last.value)

----------------------------------------------------------------------------
(* Properties of the event handlers, checked under SpecHandlers *)

\* the invocations that have returned
Finished == {t \in DOMAIN tasks : tasks[t].pc = "done"}

ResolutionErrors == {"ConfigurationError", "EnumerationError", "ToolError",
                     "ApplicationNotFound", "ApplicationNotPlaying"}

\* the title reads "Error: " followed by the error message
IsErrorTitle(title) == title.text = TxtErrorColon /\ title.error # ""

\* the invocation was for an application and ended without a sink
ResolveFailed(task) ==
    task.event.controlMode = "application" /\ task.sinkId = <<>>

\* the last command the invocation awaited is the one whose failure it caught
LastCommandFailed(task) ==
    /\ task.error \in {"ToolError", "EnumerationError"}
    /\ Len(task.issued) > 0

\* C13: every error raised by the resolution or by a facade call inside a
\* handler is caught in that handler and becomes a title that carries the
\* error message: no invocation ends with an exception; an invocation that
\* caught an error shows "Error: " and the message of that error; a failed
\* resolution (no name configured, application not running, application
\* not playing audio, pidof or wpctl failing) always ends in an error title;
\* an application that does not run is reported as not found and one that
\* runs without playing as not playing unless a command failed.
C13_ErrorsBecomeTitles ==
    /\ \A t \in DOMAIN tasks : tasks[t].pc # "threw"
    /\ \A t \in Finished :
          /\ (tasks[t].error # "") => tasks[t].title = ErrorTitle(tasks[t].error)
          /\ (tasks[t].error = "") => ~IsErrorTitle(tasks[t].title)
          /\ ResolveFailed(tasks[t]) =>
                 /\ IsErrorTitle(tasks[t].title)
                 /\ tasks[t].title.error \in ResolutionErrors
          /\ (/\ tasks[t].event.controlMode = "application"
              /\ tasks[t].event.appSinkId \in AppNames
              /\ procs[tasks[t].event.appSinkId] = <<>>) =>
                 \/ tasks[t].title = ErrorTitle("ApplicationNotFound")
                 \/ /\ LastCommandFailed(tasks[t])
                    /\ IsErrorTitle(tasks[t].title)
          /\ (/\ tasks[t].event.controlMode = "application"
              /\ tasks[t].event.appSinkId \in AppNames
              /\ procs[tasks[t].event.appSinkId] # <<>>
              /\ \A p \in Pids : ~AppearsInTrackedSection(p, statusReport)) =>
                 \/ tasks[t].title = ErrorTitle("ApplicationNotPlaying")
                 \/ /\ LastCommandFailed(tasks[t])
                    /\ IsErrorTitle(tasks[t].title)

\* a rotation for an application that runs without playing audio ended with
\* the not-playing error as its title, after pidof and wpctl status
C13_Witness ==
    \E t \in Finished :
        /\ tasks[t].op = "VolumeDial.onDialRotate"
        /\ tasks[t].event.appSinkId = "vlc"
        /\ tasks[t].issued = <<CmdPidof("vlc"), CmdStatus>>
        /\ tasks[t].title = ErrorTitle("ApplicationNotPlaying")

\* C26: every handler invocation runs to completion or failure: when every
\* external command returns at last, with a result or with an error, an
\* invocation of a will-appear, rotate, press or key-down handler that awaits
\* a command ends with a title set; and the invocation goes on, to a title
\* or to its next command, only in a step in which the command it awaits
\* returns: there is no timeout and no cancellation, so a command that never
\* returns leaves the handler without a title.
C26_RunsToCompletion ==
    /\ (Awaiting # {}) ~>
           (\A t \in DOMAIN tasks :
               /\ tasks[t].pc = "done"
               /\ tasks[t].title # Title(<<>>, "")
               /\ tasks[t].error # "" => tasks[t].title = ErrorTitle(tasks[t].error))
    /\ [][\A t \in DOMAIN tasks :
             (tasks[t].pc \notin {"idle", "done"} /\ tasks'[t] # tasks[t]) =>
                 /\ Len(tasks'[t].issued) = Len(tasks[t].issued) + 1
                 /\ Len(answers') = 1
         ]_vars

\* a rotation on the default sink awaited get-volume, set-volume, get-volume
\* and get-volume, all of which returned, and ended with the volume as title
C26_Witness ==
    \E t \in Finished :
        /\ tasks[t].op = "VolumeDial.onDialRotate"
        /\ tasks[t].sinkId = TxtDefaultSink
        /\ Len(tasks[t].issued) = 4
        /\ tasks[t].error = ""
        /\ tasks[t].title = DialTitle(Min(MaxPercent, sinkVolume), sinkMuted)

\* C14: SetVolume.onKeyDown, once its resolution has returned a PID-based
\* sink, shows "N/A" and issues no set-volume and no get-volume command;
\* once it has returned the default sink and wpctl answers, it issues one
\* absolute set-volume with the configured target volume, 50 when none is
\* configured, then one get-volume, and shows the volume read back.
C14_SetTargetKeyDown ==
    \A t \in Finished :
        tasks[t].op = "SetVolume.onKeyDown" =>
            /\ tasks[t].sinkId \in PidSinks =>
                   /\ tasks[t].title = Title(TxtNotAvailable, "")
                   /\ \A k \in 1..Len(tasks[t].issued) :
                          tasks[t].issued[k].sub \notin {"set-volume", "get-volume"}
            /\ (tasks[t].sinkId = TxtDefaultSink /\ tasks[t].error = "") =>
                   /\ Len(tasks[t].issued) = 2
                   /\ tasks[t].issued[1].sub = "set-volume"
                   /\ tasks[t].issued[1].target = TxtDefaultSink
                   /\ WpctlParseVolume(tasks[t].issued[1].value)
                         = (IF tasks[t].event.number = Undefined THEN 50
                            ELSE tasks[t].event.number)
                   /\ tasks[t].issued[2] = CmdGetVolume(TxtDefaultSink)
                   /\ tasks[t].title.text = Digits(Min(MaxPercent, sinkVolume)) \o <<"%">>
                   /\ tasks[t].title.error = ""
                   /\ sinkVolume = (IF tasks[t].event.number = Undefined THEN 50
                                    ELSE tasks[t].event.number)

\* a key press without configured target showed 50% on a sink that a
\* rotation had taken to 100
C14_Witness ==
    \E t \in Finished :
        /\ tasks[t].op = "SetVolume.onKeyDown"
        /\ tasks[t].event.number = Undefined
        /\ tasks[t].sinkId = TxtDefaultSink
        /\ tasks[t].issued = <<CmdSetVolume(TxtDefaultSink, <<"0", ".", "5", "0">>),
                               CmdGetVolume(TxtDefaultSink)>>
        /\ tasks[t].title = Title(<<"5", "0", "%">>, "")

\* C23: nothing is retried. In every step in which an external command of
\* an invocation returns with a non-zero exit code, the invocation sets
\* the error title and ends, having awaited that one command and no
\* other; an invocation that has ended issues no further command: the
\* next change to it is the handler of a new event, which starts with no
\* command issued.
C23_NoRetry ==
    [][\A t \in DOMAIN tasks :
          /\ (/\ tasks'[t].issued # tasks[t].issued
              /\ tasks'[t].issued # <<>>
              /\ answers'[1].code # 0) =>
                 /\ tasks'[t].pc = "done"
                 /\ IsErrorTitle(tasks'[t].title)
                 /\ tasks'[t].title = ErrorTitle(tasks'[t].error)
                 /\ Len(tasks'[t].issued) = Len(tasks[t].issued) + 1
          /\ (tasks[t].pc = "done" /\ tasks'[t] # tasks[t]) =>
                 /\ tasks'[t].issued = <<>>
                 /\ tasks'[t].event \in Events(tasks'[t].op)
      ]_vars

\* a rotation on the default sink whose third command, the get-volume for
\* the title, failed: it ended with the error title after three commands
C23_Witness ==
    \E t \in Finished :
        /\ tasks[t].op = "VolumeDial.onDialRotate"
        /\ answers = <<Answer(1, <<>>, <<>>)>>
        /\ tasks[t].error = "ToolError"
        /\ tasks[t].title = ErrorTitle("ToolError")
        /\ Len(tasks[t].issued) = 3
        /\ tasks[t].issued[3] = CmdGetVolume(TxtDefaultSink)

\* command k of the invocation writes to the mixer
IsMutation(task, k) == task.issued[k].sub \in {"set-volume", "set-mute"}

\* command k of the invocation belongs to its resolution
IsResolution(task, k) ==
    task.issued[k].tool = "pidof" \/ task.issued[k].sub = "status"

\* the target that a command names for the handle sinkId
TargetOf(sinkId) ==
    IF sinkId \in PidSinks THEN TxtPidFlag \o Digits(extractPid(sinkId)) ELSE sinkId

\* C31: in every handler, resolution precedes mutation: a set-volume or
\* set-mute command is issued only after the resolution of the same
\* invocation has succeeded, the default sink in system mode and the handle
\* of the cached pid of the configured name in application mode, and it
\* targets that handle; no resolution command follows a mutating one, and a
\* failed resolution is followed by no mutating command.
C31_ResolutionPrecedesMutation ==
    \A t \in DOMAIN tasks :
        \A k \in 1..Len(tasks[t].issued) :
            IsMutation(tasks[t], k) =>
                /\ ~ResolveFailed(tasks[t])
                /\ tasks[t].sinkId # <<>>
                /\ tasks[t].mode = "system" => tasks[t].sinkId = TxtDefaultSink
                /\ tasks[t].mode = "application" =>
                       /\ tasks[t].name \in AppNames
                       /\ pidCache[tasks[t].name] # Null
                       /\ tasks[t].sinkId = PidSinkId(pidCache[tasks[t].name])
                /\ tasks[t].issued[k].target = TargetOf(tasks[t].sinkId)
                /\ \A j \in 1..Len(tasks[t].issued) :
                       IsResolution(tasks[t], j) => j < k

\* a press of the dial for vlc ran pidof and the status query, then muted
\* the stream of process 48, the handle the resolution returned
C31_Witness ==
    \E t \in Finished :
        /\ tasks[t].op = "VolumeDial.onDialDown"
        /\ tasks[t].sinkId = PidSinkId(48)
        /\ tasks[t].issued = <<CmdPidof("vlc"), CmdStatus,
                               CmdSetMute(TxtPidFlag \o Digits(48))>>
        /\ tasks[t].error = ""

\* the title carries a number: a digit or a percent sign
IsNumericTitle(title) ==
    \E i \in 1..Len(title.text) :
        title.text[i] \in DigitChars \cup {"%"}

\* C32: no handler calls getVolume, getMuteState or setVolume with a process
\* handle: an invocation that holds a process handle never awaits one of
\* these calls and never catches the unsupported-operation error, the only
\* commands it issues after its resolution are the relative set-volume and
\* the mute toggle for the pid, and when it ends without an error its title
\* is the generic one of the handler, without digit or percent sign.
C32_NoAbsoluteCallOnProcessHandle ==
    \A t \in DOMAIN tasks :
        /\ tasks[t].error # "UnsupportedOperation"
        /\ tasks[t].sinkId \in PidSinks =>
               /\ tasks[t].pc \notin {"getVolume", "getMuteState", "setVolume",
                                      "adjustGet", "adjustSet"}
               /\ \A k \in 1..Len(tasks[t].issued) :
                      /\ tasks[t].issued[k].sub # "get-volume"
                      /\ IsMutation(tasks[t], k) =>
                             /\ tasks[t].issued[k].target = TargetOf(tasks[t].sinkId)
                             /\ \/ tasks[t].issued[k].value = TxtToggle
                                \/ tasks[t].issued[k].value
                                      = RelativeArgument(tasks[t].arg)
               /\ (tasks[t].pc = "done" /\ tasks[t].error = "") =>
                      /\ tasks[t].title = PidTitle(tasks[t].op)
                      /\ ~IsNumericTitle(tasks[t].title)

\* a rotation for vlc issued the relative set-volume for process 48 and
\* ended with the title "App"
C32_Witness ==
    \E t \in Finished :
        /\ tasks[t].op = "VolumeDial.onDialRotate"
        /\ tasks[t].sinkId = PidSinkId(48)
        /\ Len(tasks[t].issued) = 3
        /\ tasks[t].issued[3].sub = "set-volume"
        /\ tasks[t].error = ""
        /\ tasks[t].title = Title(<<"A","p","p">>, "")

\* C33: frame of the cache: the entry of a name changes only in a step in
\* which a status query of the resolution of that same name returns, so that
\* resolving one application never creates, changes or removes the entry of
\* another name, and no step of a facade call (getVolume, setVolume,
\* getMuteState, toggleMute, adjustVolume) changes the cache.
C33_CacheFrame ==
    [][/\ \A name \in AppNames :
             (pidCache'[name] # pidCache[name] =>
                 \E t \in DOMAIN tasks :
                     (/\ tasks[t].pc \in {"verify", "match"}
                      /\ tasks[t].mode = "application"
                      /\ tasks[t].name = name
                      /\ tasks'[t].issued = Append(tasks[t].issued, CmdStatus)))
        /\ \A u \in DOMAIN tasks :
             ((/\ tasks[u].pc \in {"adjustRelative", "adjustGet", "adjustSet",
                                   "toggleMute", "setVolume", "getVolume",
                                   "getMuteState"}
               /\ tasks'[u] # tasks[u]) =>
                  pidCache' = pidCache)
      ]_vars

\* with vlc cached as process 48, a resolution of firefox ran pidof and
\* failed; the entry of vlc is as it was and firefox has none
C33_Witness ==
    \E t \in Finished :
        /\ tasks[t].name = "firefox"
        /\ tasks[t].issued = <<CmdPidof("firefox")>>
        /\ tasks[t].error = "ApplicationNotFound"
        /\ pidCache = [a \in AppNames |-> IF a = "vlc" THEN 48 ELSE Null]

----------------------------------------------------------------------------
(* Properties of overlapping handlers, checked under SpecConcurrent *)

\* C18 as stated: of two concurrent resolutions of one application name, an
\* eviction decided by one from its own status snapshot never removes an
\* entry that the other validated and wrote in the meantime: the entry a
\* resolution evicts is the entry it read when it started.
C18_Original ==
    [][\A t \in DOMAIN tasks :
          (/\ tasks[t].pc = "verify"
           /\ tasks'[t].pc = "pidof"
           /\ pidCache'[tasks[t].name] # pidCache[tasks[t].name]) =>
              pidCache[tasks[t].name] = tasks[t].cachedPid
      ]_vars

\* C19 as stated: event handling is sequential: a handler runs its
\* resolution and its facade calls to completion before the handler of the
\* next event starts, so that at no time two invocations await an external
\* command, and no handler is entered again while an invocation of it awaits.
C19_Original == Cardinality(Awaiting) <= 1

----------------------------------------------------------------------------
(* Properties of overlapping rotations on the default sink, checked under  *)
(* SpecOverlap                                                             *)

\* C29 as stated: no adjustment is lost on the default sink: when two rotate
\* handlers with deltas d1 and d2 overlap and all tool calls succeed, the
\* final volume is the result of the two clamped adjustments applied one
\* after the other in some order, never the result of only one of them.
C29_Original ==
    (\A t \in DOMAIN tasks : tasks[t].pc = "done" /\ tasks[t].error = "") =>
        sinkVolume \in {Clamp(Clamp(50 + tasks[1].arg) + tasks[2].arg),
                        Clamp(Clamp(50 + tasks[2].arg) + tasks[1].arg)}

----------------------------------------------------------------------------
(* Properties of the facade against explicit tool results, checked under   *)
(* SpecTool                                                                *)

\* a line of diagnostic output that is a benign warning
IsWarningLine(line) == StartsWith(line, <<"W","a","r","n","i","n","g",":">>)

\* stdout carries the report of a volume: "Volume: " and a decimal fraction
HasVolumeFraction(stdout) ==
    \E v \in 0..MaxToolVolume : Includes(stdout, WpctlGetVolumeOutput(v, FALSE))

\* C21 as stated: a getVolume whose wpctl run exits non-zero, or writes a
\* line of diagnostic output that is not a benign warning, fails; one whose
\* run exits with zero, reports the volume and writes only benign warnings
\* succeeds; in particular a run that writes an error next to a warning
\* fails the call.
C21_Original ==
    (last.op = "getVolume" /\ Len(answers) = 1) =>
        /\ (\/ answers[1].code # 0
            \/ \E i \in 1..Len(answers[1].stderr) : ~IsWarningLine(answers[1].stderr[i]))
              => ~last.ok
        /\ (/\ answers[1].code = 0
            /\ HasVolumeFraction(answers[1].stdout)
            /\ \A i \in 1..Len(answers[1].stderr) : IsWarningLine(answers[1].stderr[i]))
              => last.ok

\* the command that returned last, a get-volume, failed: the tool failed, or
\* its response holds no volume fraction
ReadFailed ==
    \/ answers[1].code # 0
    \/ \E i \in 1..Len(answers[1].stderr) : ~IsWarningLine(answers[1].stderr[i])
    \/ ~HasVolumeFraction(answers[1].stdout)

\* C27 as stated: when the volume read inside adjustVolume on the default
\* sink fails, adjustVolume fails, issues no set-volume command (the call
\* does not go on to await its setVolume) and leaves the volume of the sink
\* as it was; and getVolume returns, for any response, a number in 0..100
\* or fails.
C27_Original ==
    /\ \A t \in DOMAIN tasks :
           (tasks[t].pc = "adjustSet" /\ Len(answers) = 1) => ~ReadFailed
    /\ (last.op = "adjustVolume" /\ Len(calls) = 1 /\ Len(answers) = 1 /\ ReadFailed) =>
           /\ ~last.ok
           /\ calls[1].sub # "set-volume"
           /\ sinkVolume = last.volBefore
    /\ (last.op = "getVolume" /\ Len(answers) = 1 /\ last.ok) =>
           last.value \in 0..MaxPercent

====
